---------------------------- MODULE Spec2Model ----------------------------
(* scribe: dual-source chunked capture, a pool of transcription workers   *)
(* fed through one mpsc queue, and the three output artifacts.            *)
(*                                                                        *)
(* The chunkers (chunker.rs), the worker pool and process_chunk           *)
(* (pipeline.rs), the retry loop of transcribe, dedup_bleed and           *)
(* merge_transcripts (transcribe.rs), and the chunked part of run with    *)
(* the start and stop of its capture sources (main.rs) are modelled as    *)
(* one state machine.  Threads interleave at their accesses to shared     *)
(* state: the work queue, the receive mutex, the WAV files, the output    *)
(* files.                                                                 *)
(*                                                                        *)
(* Three inputs are read by the chunker alone and are therefore drawn     *)
(* where it reads them: the samples that arrived on the source queues     *)
(* since the last drain, the wall clock at local_timestamp(), and (with   *)
(* Cancel enabled at the loop head only) the cancellation flag.           *)
EXTENDS Naturals, Integers, Sequences, FiniteSets, Bags, TLC

(* ------------------------------ bounds -------------------------------- *)
\* samples the two capture sources deliver during a run, together
MaxSamples == 2
\* largest value of the wall clock (seconds since the run started)
MaxClock == 1
\* seconds per calendar day of the model's clock
DayLen == 2
\* largest --concurrency
MaxWorkers == 2
\* largest --chunk-duration and --overlap
MaxChunkDur == 2
MaxOverlap == 1
\* largest number of speaker lines of one narrative block
MaxSegLines == 1
\* answers the backend has ready for one transcribe call
ScriptLen == 4

(* ------------------------- program constants -------------------------- *)
\* transcribe.rs:82
max_retries == 3
\* native rate x channels of the two sources, in samples per second
SysRate == 1
MicRate == 1

Src == {"system", "mic"}
Workers == 1..MaxWorkers

VARIABLES
  running,     \* the cancellation flag (main.rs:161)
  clock,       \* wall clock at its last reading, seconds after `epoch`
  config,      \* Config / PipelineConfig of this run
  srcQ,        \* per source: samples queued and not yet drained
  produced,    \* per source: number of samples delivered so far
  buf,         \* sys_buf / mic_buf of run_chunked_both
  cpc,         \* chunker position
  cphase,      \* "main": flush inside the loop, "final": flush after it
  dir,         \* date of the chunk directory (chunker.rs:146-147)
  ftime,       \* (date, time) taken by the flush in progress
  fid,         \* sequence number of the flush in progress
  chunkLog,    \* history: the chunks whose flush returned Ok
  files,       \* WAV files on disk, each [path, id, silent]
  workQ,       \* the mpsc channel of ChunkPair descriptors
  txOpen,      \* the Sender is alive
  emitted,     \* history: descriptors sent, in order
  mainpc,      \* position of main.rs run
  lock,        \* holder of the receive mutex, 0 when free
  wk,          \* per worker: pc (position), pair (the descriptor being
               \* processed), sys_silent, mic_silent, segs (speaker lines
               \* still to write), call (history: the transcribe call just
               \* made), retry (history: a call for this descriptor was
               \* answered 503, 503, 200), posted (history: the sides of
               \* this descriptor POSTed to the backend)
  json,        \* per-chunk JSON files, each [path, id, speakers]
  jsonLog,     \* history: bag of the chunks of all per-chunk JSON writes
  jsonl,       \* session.jsonl, one entry per record
  md,          \* the narrative document, one entry per line written
  tc,          \* one transcribe call on its own: readable, script, result
  cap,         \* per source: "none", "new", "started" or "stopped"
  srcOpen,     \* per source: the sending end of its queue is alive
  received,    \* history: descriptors returned by recv, in order
  mt,          \* one merge_transcripts call on its own: system, mic, the
               \* results of dedup_bleed and of the merge, and the speaker
               \* lines append_markdown writes for a result
  cli,         \* the start of run on its own: args (the command line), key
               \* (OPENAI_API_KEY is set), pc (position or outcome)
  epoch,       \* the wall clock when run was entered, seconds after local
               \* midnight
  mx           \* one call of a mixer function on its own: op, its
               \* arguments and its result

cvars == <<srcQ, produced, buf, cpc, cphase, dir, ftime, fid, chunkLog>>
wvars == <<lock, wk>>
ovars == <<json, jsonLog, jsonl, md>>
evars == <<cap, srcOpen, mt, cli, epoch, mx>>
vars == <<running, clock, config, cvars, files, workQ, txOpen, emitted,
          mainpc, wvars, ovars, tc, evars, received>>

(* ------------------------------ helpers ------------------------------- *)
Min(a, b) == IF a <= b THEN a ELSE b

\* saturating_sub on unsigned integers
SatSub(a, b) == IF a >= b THEN a - b ELSE 0

\* the last n elements of s, all of s when it is shorter
Tail_n(s, n) == SubSeq(s, SatSub(Len(s), n) + 1, Len(s))

\* the set of elements of a sequence
Range(s) == {s[i] : i \in 1..Len(s)}

\* local_timestamp(): (date, time) of the wall clock when it is read c
\* seconds after run was entered
local_timestamp(c) ==
  [date |-> (epoch + c) \div DayLen, time |-> (epoch + c) % DayLen]

NoPair == [id |-> 0, timestamp |-> 0, date |-> 0,
           system_path |-> <<0, 0, "system">>, mic_path |-> <<0, 0, "mic">>]

NoCall == [posts |-> <<>>, sleeps |-> <<>>, ok |-> FALSE]

\* a worker at position pc with no descriptor in hand
At(pc) == [pc |-> pc, pair |-> NoPair, sys_silent |-> FALSE, mic_silent |-> FALSE,
           segs |-> 0, call |-> NoCall, retry |-> FALSE, posted |-> {}]

(* ----------------------- transcribe (transcribe.rs) ------------------- *)
\* What the backend can answer to one POST.  kind "neterr": send() fails.
\* parse_ok: the body of a 2xx answer deserializes as a Transcript.  body:
\* what resp.text() yields, the empty string when it cannot be read.
Statuses == {200, 400, 429, 500, 503}
Bodies == {"", "overloaded"}
Responses ==
  [kind : {"http"}, status : Statuses \ {200}, body : Bodies, parse_ok : {FALSE}]
    \cup [kind : {"http"}, status : {200}, body : {""}, parse_ok : BOOLEAN]
    \cup [kind : {"neterr"}, status : {0}, body : {""}, parse_ok : {FALSE}]

\* the answers the backend gives to the workers of the pool
PoolResponses ==
  {r \in Responses : r.body = "" /\ r.status \in {200, 400, 503}
                                 /\ (r.status = 200 => r.parse_ok)}

\* the backend answers a, then b, then c to every later POST
Script(a, b, c) ==
  [i \in 1..ScriptLen |-> IF i = 1 THEN a ELSE IF i = 2 THEN b ELSE c]

PoolScripts == {Script(a, b, c) : a \in PoolResponses, b \in PoolResponses,
                                 c \in PoolResponses}

is_success(status) == status >= 200 /\ status <= 299
is_server_error(status) == status >= 500 /\ status <= 599
retryable(status) == status = 429 \/ is_server_error(status)

\* 1 << attempt
Pow2(n) == IF n = 0 THEN 1 ELSE IF n = 1 THEN 2 ELSE IF n = 2 THEN 4
           ELSE IF n = 3 THEN 8 ELSE 16

\* a backoff that does not grow
delay_flat(attempt) == 2

\* the delay slept after the attempt-th failed attempt (transcribe.rs:128)
delay(attempt) == Pow2(attempt)

\* giving up one attempt later
gives_up_late(status, attempt) == ~retryable(status) \/ attempt > max_retries

\* transcribe.rs:124: no further attempt after this answer
gives_up(status, attempt) == ~retryable(status) \/ attempt >= max_retries

\* an error that carries the status only
api_error_status(status, body) == <<"API error", status, "">>

\* transcribe.rs:125
api_error(status, body) == <<"API error", status, body>>

\* the loop of transcribe (transcribe.rs:85-131): `attempt` as in the code,
\* `posts` the statuses of the POSTs made so far, `sleeps` the backoff delays
\* slept so far
RECURSIVE transcribe_loop(_, _, _, _)
transcribe_loop(script, attempt, posts, sleeps) ==
  IF Len(posts) >= ScriptLen
    THEN [ok |-> FALSE, err |-> <<"unanswered">>, posts |-> posts, sleeps |-> sleeps]
  ELSE
  LET resp == script[Len(posts) + 1]
      seen == Append(posts, resp.status)
  IN  IF resp.kind = "neterr"
        THEN [ok |-> FALSE, err |-> <<"send">>, posts |-> seen, sleeps |-> sleeps]
      ELSE IF is_success(resp.status)
        THEN IF resp.parse_ok
               THEN [ok |-> TRUE, err |-> <<>>, posts |-> seen, sleeps |-> sleeps]
               ELSE [ok |-> FALSE, err |-> <<"parse">>, posts |-> seen, sleeps |-> sleeps]
      ELSE IF gives_up(resp.status, attempt + 1)
        THEN [ok |-> FALSE, err |-> api_error(resp.status, resp.body),
              posts |-> seen, sleeps |-> sleeps]
      ELSE transcribe_loop(script, attempt + 1, seen,
                           Append(sleeps, delay(attempt + 1)))

\* transcribe(path, config): `readable` is whether the WAV is there to read
transcribe(readable, script) ==
  IF ~readable
    THEN [ok |-> FALSE, err |-> <<"file not found">>, posts |-> <<>>, sleeps |-> <<>>]
    ELSE transcribe_loop(script, 0, <<>>, <<>>)

NoResult == [ok |-> FALSE, err |-> <<"not called">>, posts |-> <<>>, sleeps |-> <<>>]

(* -------- dedup_bleed and merge_transcripts (transcribe.rs) ----------- *)
\* A word's text is a sequence of characters, a time is a whole number of
\* ticks, an Option is a sequence of length 0 or 1.  Segment.words is read
\* by transcribe alone (transcribe.rs:109-115) and is left out.
\* ticks of one second of the f64 times (transcribe.rs:26-27)
TicksPerSecond == 2
\* transcribe.rs:146
TIME_TOLERANCE == 1 * TicksPerSecond
\* transcribe.rs:147
MIN_RUN == 3

None == <<>>
Some(x) == <<x>>
Abs(x) == IF x < 0 THEN 0 - x ELSE x
Max(a, b) == IF a >= b THEN a ELSE b

\* the characters of the model's texts and their classes
Whitespace == {" "}
Alphanumeric == {"a", "b", "A", "B"}
is_whitespace(c) == c \in Whitespace
is_alphanumeric(c) == c \in Alphanumeric
to_lowercase(c) == IF c = "A" THEN "a" ELSE IF c = "B" THEN "b" ELSE c

\* str::trim: leading and trailing whitespace removed
RECURSIVE trim_start(_)
trim_start(w) ==
  IF w # <<>> /\ is_whitespace(Head(w)) THEN trim_start(Tail(w)) ELSE w
RECURSIVE trim_end(_)
trim_end(w) ==
  IF w # <<>> /\ is_whitespace(w[Len(w)])
    THEN trim_end(SubSeq(w, 1, Len(w) - 1)) ELSE w
trim(w) == trim_end(trim_start(w))

\* transcribe.rs:134-140
normalize_word(w) ==
  SelectSeq([i \in 1..Len(trim(w)) |-> to_lowercase(trim(w)[i])],
            is_alphanumeric)

\* equal forms, at a distance up to and including the tolerance
same_word_inclusive(mw, sw) ==
  /\ normalize_word(sw.word) = normalize_word(mw.word)
  /\ Abs(mw.start - sw.start) <= TIME_TOLERANCE

\* the closure of transcribe.rs:159-162
same_word(mw, sw) ==
  /\ normalize_word(sw.word) = normalize_word(mw.word)
  /\ Abs(mw.start - sw.start) < TIME_TOLERANCE

\* transcribe.rs:154-163: for each mic word, whether it matches
matches(system, mic) ==
  [i \in 1..Len(mic.words) |->
     IF normalize_word(mic.words[i].word) = <<>> THEN FALSE
     ELSE \E k \in 1..Len(system.words) :
            same_word(mic.words[i], system.words[k])]

\* the inner loop of transcribe.rs:171-173: the end of the run begun at i
RECURSIVE run_end(_, _)
run_end(m, i) == IF i <= Len(m) /\ m[i] THEN run_end(m, i + 1) ELSE i

\* the outer loop of transcribe.rs:168-182
RECURSIVE mark_runs(_, _, _)
mark_runs(m, i, marked) ==
  IF i > Len(m) THEN marked
  ELSE IF m[i]
    THEN LET e == run_end(m, i)
         IN  mark_runs(m, e,
               IF e - i >= MIN_RUN
                 THEN [j \in 1..Len(m) |-> marked[j] \/ (i <= j /\ j < e)]
                 ELSE marked)
    ELSE mark_runs(m, i + 1, marked)

\* every matching word marked, whatever the length of its run
to_remove_every_match(m) == m

\* transcribe.rs:166-182
to_remove(m) == mark_runs(m, 1, [j \in 1..Len(m) |-> FALSE])

\* the elements of `words` whose flag equals `want`, in order
RECURSIVE pick(_, _, _)
pick(words, flags, want) ==
  IF words = <<>> THEN <<>>
  ELSE (IF Head(flags) = want THEN <<Head(words)>> ELSE <<>>)
       \o pick(Tail(words), Tail(flags), want)

\* the filter of transcribe.rs:200, 211 and 237
within(w, seg) == w.start >= seg.start /\ w.end <= seg.end

\* transcribe.rs:199-202: the summed length of the removed words in range
RECURSIVE bleed_coverage(_, _)
bleed_coverage(removed, seg) ==
  IF removed = <<>> THEN 0
  ELSE (IF within(Head(removed), seg)
          THEN Head(removed).end - Head(removed).start ELSE 0)
       + bleed_coverage(Tail(removed), seg)

\* [&str]::join(" ")
RECURSIVE join(_)
join(parts) ==
  IF parts = <<>> THEN <<>>
  ELSE IF Len(parts) = 1 THEN parts[1]
  ELSE parts[1] \o <<" ">> \o join(Tail(parts))

\* the text rebuilt from the remaining words, whatever was removed
rebuild_text_by_words(seg, removed, kept) ==
  LET In(w) == within(w, seg)
      remaining == SelectSeq(kept, In)
  IN  join([i \in 1..Len(remaining) |-> trim(remaining[i].word)])

\* transcribe.rs:203-219: the text of a mic segment after the removal;
\* coverage / duration > 0.8 is compared without the division
rebuild_text(seg, removed, kept) ==
  IF /\ seg.end - seg.start > 0
     /\ 10 * bleed_coverage(removed, seg) > 8 * (seg.end - seg.start)
    THEN <<>>
    ELSE LET In(w) == within(w, seg)
             remaining == SelectSeq(kept, In)
         IN  join([i \in 1..Len(remaining) |-> trim(remaining[i].word)])

has_text(seg) == seg.text # <<>>

\* the removal and the rebuilding applied whatever the word lists hold
dedup_bleed_always(system, mic) ==
  LET marks == to_remove(matches(system, mic))
      kept == pick(mic.words, marks, FALSE)
      removed == pick(mic.words, marks, TRUE)
      rebuilt == [i \in 1..Len(mic.segments) |->
                    [mic.segments[i] EXCEPT
                       !.text = rebuild_text(mic.segments[i], removed, kept)]]
  IN  [mic EXCEPT !.words = kept,
                  !.segments = SelectSeq(rebuilt, has_text)]

\* transcribe.rs:145-223: the mic transcript dedup_bleed leaves
dedup_bleed(system, mic) ==
  IF system.words = <<>> \/ mic.words = <<>> THEN mic
  ELSE LET marks == to_remove(matches(system, mic))
           kept == pick(mic.words, marks, FALSE)
           removed == pick(mic.words, marks, TRUE)
           rebuilt == [i \in 1..Len(mic.segments) |->
                         [mic.segments[i] EXCEPT
                            !.text = rebuild_text(mic.segments[i], removed, kept)]]
       IN  [mic EXCEPT !.words = kept,
                       !.segments = SelectSeq(rebuilt, has_text)]

\* the words that begin inside the segment
seg_words_by_start(words, seg) ==
  LET In(w) == w.start >= seg.start /\ w.start <= seg.end
  IN  SelectSeq(words, In)

\* transcribe.rs:235-239
seg_words(words, seg) ==
  LET In(w) == within(w, seg) IN SelectSeq(words, In)

\* transcribe.rs:230-249
to_speaker_segments(t, speaker) ==
  [i \in 1..Len(t.segments) |->
     [speaker |-> speaker, start |-> t.segments[i].start,
      end |-> t.segments[i].end, text |-> t.segments[i].text,
      words |-> seg_words(t.words, t.segments[i])]]

\* x put after every element that starts at or before it
RECURSIVE insert_sorted(_, _)
insert_sorted(sorted, x) ==
  IF sorted = <<>> THEN <<x>>
  ELSE IF x.start < Head(sorted).start THEN <<x>> \o sorted
  ELSE <<Head(sorted)>> \o insert_sorted(Tail(sorted), x)

\* a sort by start that reverses the elements with equal starts
RECURSIVE sort_unstable(_)
sort_unstable(segs) ==
  IF segs = <<>> THEN <<>>
  ELSE insert_sorted(sort_unstable(Tail(segs)), Head(segs))

\* transcribe.rs:264: slice::sort_by is a stable sort
RECURSIVE sort_by_start(_)
sort_by_start(segs) ==
  IF segs = <<>> THEN <<>>
  ELSE insert_sorted(sort_by_start(SubSeq(segs, 1, Len(segs) - 1)),
                     segs[Len(segs)])

\* the two transcripts merged as they came
merge_transcripts_raw(system, mic) ==
  LET other == IF system # None THEN to_speaker_segments(system[1], "other")
               ELSE <<>>
      you == IF mic # None THEN to_speaker_segments(mic[1], "you") ELSE <<>>
  IN  [segments |-> sort_by_start(other \o you),
       duration |-> Max(IF system # None THEN system[1].duration ELSE 0,
                        IF mic # None THEN mic[1].duration ELSE 0)]

\* transcribe.rs:225-267
merge_transcripts(system, mic) ==
  LET deduped == IF system # None /\ mic # None
                   THEN Some(dedup_bleed(system[1], mic[1])) ELSE mic
      other == IF system # None THEN to_speaker_segments(system[1], "other")
               ELSE <<>>
      you == IF deduped # None THEN to_speaker_segments(deduped[1], "you")
             ELSE <<>>
  IN  [segments |-> sort_by_start(other \o you),
       duration |-> Max(IF system # None THEN system[1].duration ELSE 0,
                        IF mic # None THEN mic[1].duration ELSE 0)]

\* no call of merge_transcripts, dedup_bleed or append_markdown on its own
NoMerge == [system |-> None, mic |-> None, deduped |-> None, merged |-> None,
            lines |-> None]

(* ---------------- the start of run (main.rs:151-204) ------------------ *)
\* The command line as run reads it: which options are present, the shape
\* of the value of --transcribe-pair, the capture mode parse_config
\* derives from --system and --mic.
Args ==
  [help : BOOLEAN,
   transcribe_pair : {"absent", "no_comma", "pair"},
   transcribe : BOOLEAN,
   api_url : BOOLEAN,
   no_transcribe : BOOLEAN,
   mode : {"system", "mic", "both"}]

\* no start of run on its own
NoCli == [args |-> [help |-> FALSE, transcribe_pair |-> "absent",
                    transcribe |-> FALSE, api_url |-> FALSE,
                    no_transcribe |-> FALSE, mode |-> "both"],
          key |-> FALSE, pc |-> "off"]

\* transcribe_config (main.rs:410-423): the key is read from the
\* environment first, whatever the arguments
transcribe_config(args, key) == IF key THEN "ok" ELSE "err_no_key"

\* where run goes from its entry (main.rs:154-167)
dispatch(args) ==
  IF args.help THEN "help"
  ELSE IF args.transcribe_pair # "absent" THEN "transcribe_pair"
  ELSE IF args.transcribe THEN "transcribe"
  ELSE "backend"

\* main.rs:151-167: --help, the one-shot modes, or parse_config
RunDispatch ==
  /\ cli.pc = "run"
  /\ cli' = [cli EXCEPT !.pc = dispatch(cli.args)]
  /\ UNCHANGED <<running, clock, config, cvars, files, workQ, txOpen, emitted,
                 mainpc, wvars, ovars, tc, cap, srcOpen, mt, epoch, mx,
                 received>>

\* run_transcribe_pair up to its first transcribe (main.rs:431-438)
RunTranscribePair ==
  /\ cli.pc = "transcribe_pair"
  /\ cli' = [cli EXCEPT !.pc =
               IF cli.args.transcribe_pair = "no_comma" THEN "err_pair"
               ELSE IF transcribe_config(cli.args, cli.key) = "ok" THEN "one_shot"
               ELSE "err_no_key"]
  /\ UNCHANGED <<running, clock, config, cvars, files, workQ, txOpen, emitted,
                 mainpc, wvars, ovars, tc, cap, srcOpen, mt, epoch, mx,
                 received>>

\* run_transcribe up to transcribe (main.rs:425-427)
RunTranscribe ==
  /\ cli.pc = "transcribe"
  /\ cli' = [cli EXCEPT !.pc =
               IF transcribe_config(cli.args, cli.key) = "ok" THEN "one_shot"
               ELSE "err_no_key"]
  /\ UNCHANGED <<running, clock, config, cvars, files, workQ, txOpen, emitted,
                 mainpc, wvars, ovars, tc, cap, srcOpen, mt, epoch, mx,
                 received>>

\* the transcription backend is resolved (main.rs:172-202): none, the
\* remote API, or the local server, whose start can fail
ResolveBackend ==
  /\ cli.pc = "backend"
  /\ \E started \in BOOLEAN :
       cli' = [cli EXCEPT !.pc =
                 IF cli.args.no_transcribe \/ cli.args.mode # "both"
                   THEN "record_only"
                 ELSE IF cli.args.api_url
                   THEN IF transcribe_config(cli.args, cli.key) = "ok"
                          THEN "live_remote" ELSE "err_no_key"
                 ELSE IF started THEN "live_local" ELSE "record_only"]
  /\ UNCHANGED <<running, clock, config, cvars, files, workQ, txOpen, emitted,
                 mainpc, wvars, ovars, tc, cap, srcOpen, mt, epoch, mx,
                 received>>

(* ------------------------------ mixer.rs ------------------------------ *)
\* the longest side of an interleave_stereo call, and the largest number
\* of full blocks in the input of a resample call
MaxStereo == 3
MaxBlocks == 2

\* mixer.rs:25-26: the frames asked per input block and the sub-blocks of
\* one block, as passed to FftFixedIn::new
chunk_size_in == 1024
sub_chunks == 2

\* no call of a mixer function on its own
NoMix == [op |-> "none"]

\* slice.get(i).copied().unwrap_or(0.0), of the element at index i from 1;
\* a sample is written in tenths
get(s, i) == IF i \in DOMAIN s THEN s[i] ELSE 0

\* the two sides interleaved up to the end of the shorter one
interleave_shortest(system, mic) ==
  LET len == Min(Len(system), Len(mic))
  IN  [k \in 1..(2 * len) |->
         IF k % 2 = 1 THEN get(system, (k + 1) \div 2) ELSE get(mic, k \div 2)]

\* mixer.rs:70-78
interleave_stereo(system, mic) ==
  LET len == Max(Len(system), Len(mic))
  IN  [k \in 1..(2 * len) |->
         IF k % 2 = 1 THEN get(system, (k + 1) \div 2) ELSE get(mic, k \div 2)]

RECURSIVE gcd(_, _)
gcd(a, b) == IF b = 0 THEN a ELSE gcd(b, a % b)

\* (a / b).ceil() on non-negative integers
ceil_div(a, b) == (a + b - 1) \div b

\* FftFixedIn::new(from_rate, to_rate, 1024, 2, 1) (mixer.rs:22-29): the
\* resampler works on sub-blocks of fft_chunks * from_rate / gcd input
\* frames, each giving fft_chunks * to_rate / gcd output frames.  The crate
\* is not part of the repository and its version is not pinned there: the
\* number of minimal blocks in a sub-block is the wanted sub-block size
\* (chunk_size_in / sub_chunks) over the minimal input block or over the
\* minimal output block, rounded up, whichever the resolved version takes.
fft_chunks_choices(from_rate, to_rate) ==
  LET g == gcd(from_rate, to_rate)
      wanted_subsize == chunk_size_in \div sub_chunks
  IN  {ceil_div(wanted_subsize, from_rate \div g),
       ceil_div(wanted_subsize, to_rate \div g)}

fft_size_in(from_rate, to_rate, fft_chunks) ==
  fft_chunks * (from_rate \div gcd(from_rate, to_rate))

fft_size_out(from_rate, to_rate, fft_chunks) ==
  fft_chunks * (to_rate \div gcd(from_rate, to_rate))

\* resampler.input_frames_next() (mixer.rs:31): the fixed input size
input_frames_next == chunk_size_in

\* resampler.process(&[chunk], None) (mixer.rs:37, 47-49) on a resampler
\* holding `saved` input frames: the block is added to them, every whole
\* sub-block is resampled and the frames left over stay in the resampler
process(saved, fft_in, fft_out) ==
  LET frames == saved + input_frames_next
      ready == frames \div fft_in
  IN  [len |-> ready * fft_out, saved |-> frames - ready * fft_in]

\* mixer.rs:35-40: the loop over the full blocks, from position st.pos with
\* st.out frames already in the output
RECURSIVE full_blocks(_, _, _, _)
full_blocks(st, len, fft_in, fft_out) ==
  IF st.pos + input_frames_next <= len
    THEN LET result == process(st.saved, fft_in, fft_out)
         IN  full_blocks([pos |-> st.pos + input_frames_next,
                          saved |-> result.saved,
                          out |-> st.out + result.len], len, fft_in, fft_out)
    ELSE st

\* mixer.rs:31-55: the number of frames of the output
output_len(len, from_rate, to_rate, fft_chunks) ==
  LET fft_in == fft_size_in(from_rate, to_rate, fft_chunks)
      fft_out == fft_size_out(from_rate, to_rate, fft_chunks)
      st == full_blocks([pos |-> 0, saved |-> 0, out |-> 0], len, fft_in, fft_out)
  IN  IF st.pos < len
        THEN LET remaining == len - st.pos
                 result == process(st.saved, fft_in, fft_out)
                 expected == ceil_div(remaining * to_rate, from_rate)
             IN  st.out + Min(expected, result.len)
        ELSE st.out

\* a frame computed by the resampler; its value is not modelled
Resampled == "resampled"

\* mixer.rs:17-56, with the resampler of `fft_chunks` minimal blocks
resample(samples, from_rate, to_rate, fft_chunks) ==
  IF from_rate = to_rate \/ samples = <<>> THEN samples
  ELSE [i \in 1..output_len(Len(samples), from_rate, to_rate, fft_chunks)
          |-> Resampled]

\* the calls of interleave_stereo: system samples of up to MaxStereo tenths,
\* mic samples likewise, a zero sample included on both sides
SystemValues == {0, 1, 2, 3}
MicValues == {0, 4, 5}
StereoSide(values) ==
  UNION {[1..n -> values] : n \in 0..MaxStereo}
StereoInputs ==
  [op : {"interleave"}, a : StereoSide(SystemValues), b : StereoSide(MicValues),
   out : {<<>>}, done : {FALSE}]

\* the calls of resample: up to MaxBlocks full blocks and a remainder, at
\* the rates of the devices and of the target (main.rs:331, chunker.rs:44)
Rates == {16000, 44100, 48000}
Remainders == {0, 1, 512, 900, 1023}
Lengths == {b * chunk_size_in + r : b \in 0..MaxBlocks, r \in Remainders}
ResampleInputs ==
  {[op |-> "resample", samples |-> [i \in 1..n |-> i], from_rate |-> f,
    to_rate |-> t, out |-> <<>>, done |-> FALSE] :
     n \in Lengths, f \in Rates, t \in Rates}

InterleaveCall ==
  /\ mx.op = "interleave" /\ ~mx.done
  /\ mx' = [mx EXCEPT !.out = interleave_stereo(mx.a, mx.b), !.done = TRUE]
  /\ UNCHANGED <<running, clock, config, cvars, files, workQ, txOpen, emitted,
                 mainpc, wvars, ovars, tc, cap, srcOpen, mt, cli, epoch,
                 received>>

ResampleCall ==
  /\ mx.op = "resample" /\ ~mx.done
  /\ \E fft_chunks \in fft_chunks_choices(mx.from_rate, mx.to_rate) :
       mx' = [mx EXCEPT !.out = resample(mx.samples, mx.from_rate, mx.to_rate,
                                         fft_chunks),
                        !.done = TRUE]
  /\ UNCHANGED <<running, clock, config, cvars, files, workQ, txOpen, emitted,
                 mainpc, wvars, ovars, tc, cap, srcOpen, mt, cli, epoch,
                 received>>

(* ------------------------- chunker (chunker.rs) ----------------------- *)
Rate(s) == IF s = "system" THEN SysRate ELSE MicRate

\* the overlap as configured, not clamped
overlap_unclamped == config.overlap

\* chunker.rs:140
overlap == Min(config.overlap, SatSub(config.chunk_duration, 1))
\* chunker.rs:141-144
chunk_samples(s) == config.chunk_duration * Rate(s)
overlap_samples(s) == overlap * Rate(s)

\* the mode and queue run_chunked_both is called with (main.rs:256, 265)
mix_mode == IF config.live THEN "split" ELSE config.mix
chunk_tx == config.live

\* `{time}_system.wav`, `{time}_mic.wav`, `{time}.wav` under audio/{dir}
wav_path(t, side) == <<dir, t.time, side>>

\* a WAV with no samples is silent; otherwise the samples decide
SilentChoices(b) == IF b = <<>> THEN {TRUE} ELSE BOOLEAN

\* audio::write_wav_i16 on success: the file at `path` is created or
\* replaced, also when there are no samples
write_wav_i16(fs, path, id, silent) ==
  {f \in fs : f.path # path} \cup {[path |-> path, id |-> id, silent |-> silent]}

\* fs::remove_file; a missing file is an error the worker ignores
remove_file(fs, path) == {f \in fs : f.path # path}

path_exists(fs, path) == \E f \in fs : f.path = path

\* the configurations of a chunked dual-source run (main.rs:172-202,
\* 228-266): with live transcription the pool has `concurrency` workers
LiveConfigs ==
  [mode : {"both"}, live : {TRUE}, mix : {"split"},
   concurrency : 0..MaxWorkers, save_audio : BOOLEAN,
   chunk_duration : 1..MaxChunkDur, overlap : 0..MaxOverlap]
RecordConfigs ==
  [mode : {"both"}, live : {FALSE}, mix : {"split", "stereo"},
   concurrency : {0}, save_audio : {FALSE},
   chunk_duration : 1..MaxChunkDur, overlap : 0..MaxOverlap]
\* the configurations of a chunked single-source run (main.rs:172-174,
\* 214-227): never transcribed live
SingleConfigs ==
  [mode : Src, live : {FALSE}, mix : {"split"}, concurrency : {0},
   save_audio : {FALSE}, chunk_duration : 1..MaxChunkDur,
   overlap : 0..MaxOverlap]

\* the capture sources the mode constructs (main.rs:213-230)
Sources == IF config.mode = "both" THEN Src ELSE {config.mode}

\* the state after parse_config under one of `configs`, the capture
\* sources and the time of day apart
InitRun(configs) ==
  /\ running = TRUE
  /\ clock = 0
  /\ config \in configs
  /\ srcQ = [s \in Src |-> <<>>]
  /\ produced = [s \in Src |-> 0]
  /\ buf = [s \in Src |-> <<>>]
  /\ cpc = "loop"
  /\ cphase = "main"
  /\ dir = local_timestamp(0).date
  /\ ftime = local_timestamp(0)
  /\ fid = 0
  /\ chunkLog = <<>>
  /\ files = {}
  /\ workQ = <<>>
  /\ txOpen = TRUE
  /\ emitted = <<>>
  /\ lock = 0
  /\ wk = [w \in Workers |-> IF w <= config.concurrency THEN At("idle")
                             ELSE At("off")]
  /\ json = {}
  /\ jsonLog = EmptyBag
  /\ jsonl = <<>>
  /\ md = <<>>
  /\ srcOpen = [s \in Src |-> TRUE]
  /\ received = <<>>

\* the state when the chunker is entered, under one of `configs`: every
\* source of the mode has been started
InitWith(configs) ==
  /\ epoch = 0
  /\ InitRun(configs)
  /\ mainpc = "run"
  /\ cap = [s \in Src |-> IF s \in Sources THEN "started" ELSE "none"]

\* no call of transcribe, of merge_transcripts or of the start of run on
\* its own
NoTranscribe ==
  /\ tc = [readable |-> FALSE, script |-> <<>>, result |-> NoResult]
  /\ mt = NoMerge
  /\ cli = NoCli
  /\ mx = NoMix

\* the state before the first source is started (main.rs:213), under one
\* of `configs`
InitStart(configs) ==
  /\ epoch = 0
  /\ InitRun(configs)
  /\ mainpc = "start"
  /\ cap = [s \in Src |-> IF s \in Sources THEN "new" ELSE "none"]

Init ==
  /\ InitStart(LiveConfigs \cup RecordConfigs \cup SingleConfigs)
  /\ NoTranscribe

\* the process is alive: run has neither returned nor exited with an error
Alive == mainpc \in {"run", "join"}

\* the interrupt handler (main.rs:163-165); the chunker reads the flag at
\* the head of its loop only
Cancel ==
  /\ Alive /\ running /\ cpc = "loop"
  /\ running' = FALSE
  /\ UNCHANGED <<clock, config, cvars, files, workQ, txOpen, emitted, mainpc,
                 wvars, ovars, tc, evars, received>>

\* the samples that can have arrived on the two queues since the last
\* drain; a source that is not captured, or whose sender is gone, has none
Arrivals ==
  {a \in [Src -> 0..MaxSamples] :
     /\ a["system"] + a["mic"] + produced["system"] + produced["mic"] <= MaxSamples
     /\ \A s \in Src : (s \notin Sources \/ ~srcOpen[s]) => a[s] = 0}

\* samples produced[s]+1 .. produced[s]+n of source s
Fresh(s, n) == [i \in 1..n |-> produced[s] + i]

\* entry of flush_chunk_both (chunker.rs:61-69) with the buffers b: the
\* early return, or the branch of the mode
flush_entry(b) ==
  IF b["system"] = <<>> /\ b["mic"] = <<>> THEN "ret"
  ELSE IF mix_mode = "stereo" THEN "write_stereo" ELSE "write_sys"

\* a chunk that is ready when both buffers have reached their thresholds
chunk_ready_both(b) ==
  /\ Len(b["system"]) >= chunk_samples("system")
  /\ Len(b["mic"]) >= chunk_samples("mic")

\* chunker.rs:172
chunk_ready(b) ==
  \/ Len(b["system"]) >= chunk_samples("system")
  \/ Len(b["mic"]) >= chunk_samples("mic")

\* flush_chunk_both is entered and reads the wall clock (chunker.rs:68)
StartFlush(b) ==
  /\ cpc' = flush_entry(b)
  /\ fid' = fid + 1
  /\ \E c \in clock..MaxClock :
       /\ clock' = c
       /\ ftime' = local_timestamp(c)

\* one iteration of the main loop up to the flush (chunker.rs:155-179), or
\* the loop is left because the flag is down
ChunkerLoop ==
  /\ Alive /\ cpc = "loop" /\ config.mode = "both"
  /\ \E a \in Arrivals :
       /\ produced' = [s \in Src |-> produced[s] + a[s]]
       /\ IF running
            THEN LET b == [s \in Src |-> buf[s] \o srcQ[s] \o Fresh(s, a[s])]
                 IN  /\ buf' = b
                     /\ srcQ' = [s \in Src |-> <<>>]
                     /\ IF chunk_ready(b) /\ flush_entry(b) # "ret"
                          THEN StartFlush(b)
                          ELSE UNCHANGED <<cpc, ftime, fid, clock>>
            ELSE /\ cpc' = "final"
                 /\ srcQ' = [s \in Src |-> srcQ[s] \o Fresh(s, a[s])]
                 /\ UNCHANGED <<buf, ftime, fid, clock>>
  /\ cphase' = "main"
  /\ UNCHANGED <<running, config, dir, chunkLog, files, workQ, txOpen, emitted,
                 mainpc, wvars, ovars, tc, evars, received>>

\* leaving the loop without another look at the queues
final_drain_skipped(b, q) == b

\* the queued samples put before the buffered ones
final_drain_front(b, q) == [s \in Src |-> q[s] \o b[s]]

\* the buffers after the final drain (chunker.rs:198-204)
final_drain(b, q) == [s \in Src |-> b[s] \o q[s]]

\* final drain and entry of the final flush (chunker.rs:198-211); with both
\* buffers empty the flush returns at once and so does run_chunked_both
ChunkerFinalDrain ==
  /\ Alive /\ cpc = "final" /\ config.mode = "both"
  /\ LET b == final_drain(buf, srcQ)
     IN  /\ buf' = b
         /\ srcQ' = [s \in Src |-> <<>>]
         /\ IF flush_entry(b) = "ret"
              THEN /\ cpc' = "done"
                   /\ UNCHANGED <<ftime, fid, clock>>
              ELSE StartFlush(b)
  /\ cphase' = "final"
  /\ UNCHANGED <<running, config, produced, dir, chunkLog, files, workQ,
                 txOpen, emitted, mainpc, wvars, ovars, tc, evars, received>>

\* both buffers cleared after a flush
retain_none(b) == [s \in Src |-> <<>>]

\* the buffers kept after a flush inside the loop (chunker.rs:183-186)
retain(b) == [s \in Src |-> Tail_n(b[s], overlap_samples(s))]

\* what follows a flush that returned Ok: inside the loop chunk_count += 1
\* and the overlap is retained (chunker.rs:180-188), after it the function
\* returns Ok (chunker.rs:212-217)
AfterFlush ==
  /\ chunkLog' = Append(chunkLog, [id |-> fid, system |-> buf["system"],
                                   mic |-> buf["mic"], t |-> ftime])
  /\ IF cphase = "main"
       THEN /\ buf' = retain(buf)
            /\ cpc' = "loop"
       ELSE /\ buf' = buf
            /\ cpc' = "done"

\* chunker.rs:82: the system WAV is written, or the write fails and the
\* error leaves flush_chunk_both and run_chunked_both
FlushWriteSys ==
  /\ Alive /\ cpc = "write_sys"
  /\ \E ok \in BOOLEAN, sil \in SilentChoices(buf["system"]) :
       IF ok
         THEN /\ files' = write_wav_i16(files, wav_path(ftime, "system"), fid, sil)
              /\ cpc' = "write_mic"
         ELSE /\ cpc' = "err"
              /\ UNCHANGED files
  /\ UNCHANGED <<running, clock, config, srcQ, produced, buf, cphase, dir,
                 ftime, fid, chunkLog, workQ, txOpen, emitted, mainpc, wvars,
                 ovars, tc, evars, received>>

\* the position after the mic WAV was written (chunker.rs:83-85)
after_write_mic(ok) == IF ok THEN "send" ELSE "err"

\* chunker.rs:83
FlushWriteMic ==
  /\ Alive /\ cpc = "write_mic"
  /\ \E ok \in BOOLEAN, sil \in SilentChoices(buf["mic"]) :
       /\ files' = IF ok THEN write_wav_i16(files, wav_path(ftime, "mic"), fid, sil)
                   ELSE files
       /\ cpc' = after_write_mic(ok)
  /\ UNCHANGED <<running, clock, config, srcQ, produced, buf, cphase, dir,
                 ftime, fid, chunkLog, workQ, txOpen, emitted, mainpc, wvars,
                 ovars, tc, evars, received>>

\* the ChunkPair of the flush in progress (chunker.rs:86-91)
ChunkPair ==
  [id |-> fid, timestamp |-> ftime.time, date |-> ftime.date,
   system_path |-> wav_path(ftime, "system"), mic_path |-> wav_path(ftime, "mic")]

\* the descriptor put at the head of the queue
send_front(q, pair) == <<pair>> \o q

\* Sender::send (chunker.rs:86-91): the channel is a FIFO queue
send(q, pair) == Append(q, pair)

\* chunker.rs:85-96: the descriptor is sent when a queue is configured, and
\* flush_chunk_both returns Ok
FlushSend ==
  /\ Alive /\ cpc = "send"
  /\ IF chunk_tx
       THEN /\ workQ' = send(workQ, ChunkPair)
            /\ emitted' = Append(emitted, ChunkPair)
       ELSE UNCHANGED <<workQ, emitted>>
  /\ AfterFlush
  /\ UNCHANGED <<running, clock, config, srcQ, produced, cphase, dir, ftime,
                 fid, files, txOpen, mainpc, wvars, ovars, tc, evars, received>>

\* chunker.rs:71-76: stereo mode writes one file and sends nothing
FlushWriteStereo ==
  /\ Alive /\ cpc = "write_stereo"
  /\ \E ok \in BOOLEAN, sil \in SilentChoices(buf["system"] \o buf["mic"]) :
       IF ok
         THEN /\ files' = write_wav_i16(files, wav_path(ftime, "stereo"), fid, sil)
              /\ AfterFlush
         ELSE /\ cpc' = "err"
              /\ UNCHANGED <<files, buf, chunkLog>>
  /\ UNCHANGED <<running, clock, config, srcQ, produced, cphase, dir, ftime,
                 fid, workQ, txOpen, emitted, mainpc, wvars, ovars, tc, evars, received>>

(* ------------------------------ run (main.rs) ------------------------- *)
\* main.rs:256-258: run_chunked_both returned Ok, the sender is dropped
MainDropTx ==
  /\ mainpc = "run" /\ cpc = "done" /\ config.live
  /\ txOpen' = FALSE
  /\ mainpc' = "join"
  /\ UNCHANGED <<running, clock, config, cvars, files, workQ, emitted, wvars,
                 ovars, tc, evars, received>>

\* pipeline::shutdown (pipeline.rs:236-240) returns when every worker has
\* terminated; run then goes on to its end
MainShutdown ==
  /\ mainpc = "join"
  /\ \A w \in Workers : wk[w].pc \in {"done", "off"}
  /\ mainpc' = "done"
  /\ UNCHANGED <<running, clock, config, cvars, files, workQ, txOpen, emitted,
                 wvars, ovars, tc, evars, received>>

\* main.rs:265: without live transcription run goes on after the chunker
MainNoPipeline ==
  /\ mainpc = "run" /\ cpc = "done" /\ ~config.live
  /\ mainpc' = "done"
  /\ UNCHANGED <<running, clock, config, cvars, files, workQ, txOpen, emitted,
                 wvars, ovars, tc, evars, received>>

\* the `?` of main.rs:256 and 265: the error leaves run, main exits with
\* status 1 and the process, its workers included, ends
MainError ==
  /\ mainpc = "run" /\ cpc = "err"
  /\ mainpc' = "exit1"
  /\ UNCHANGED <<running, clock, config, cvars, files, workQ, txOpen, emitted,
                 wvars, ovars, tc, evars, received>>

(* --------------- run_chunked_single (chunker.rs:220-279) -------------- *)
\* flush_chunk_single is entered with a buffer that is not empty and reads
\* the wall clock (chunker.rs:113)
StartFlushSingle ==
  /\ cpc' = "write_single"
  /\ fid' = fid + 1
  /\ \E c \in clock..MaxClock :
       /\ clock' = c
       /\ ftime' = local_timestamp(c)

\* what recv_timeout returns (chunker.rs:243-247) when n samples are ready
\* and the sender is alive or not
recv_timeout(n, open) ==
  IF n > 0 THEN "ok" ELSE IF open THEN "timeout" ELSE "disconnected"

\* one iteration of the loop up to the flush (chunker.rs:242-250), or the
\* loop is left because the flag is down or the queue is closed
SingleLoop ==
  /\ Alive /\ cpc = "loop" /\ config.mode # "both"
  /\ \E a \in Arrivals :
       LET s == config.mode
           b == [buf EXCEPT ![s] = buf[s] \o Fresh(s, a[s])]
       IN  /\ produced' = [produced EXCEPT ![s] = produced[s] + a[s]]
           /\ IF ~running
                THEN /\ cpc' = "final"
                     /\ srcQ' = [srcQ EXCEPT ![s] = srcQ[s] \o Fresh(s, a[s])]
                     /\ UNCHANGED <<buf, ftime, fid, clock>>
                ELSE IF recv_timeout(a[s], srcOpen[s]) = "disconnected"
                  THEN /\ cpc' = "final"
                       /\ UNCHANGED <<buf, srcQ, ftime, fid, clock>>
                  ELSE /\ buf' = b
                       /\ UNCHANGED srcQ
                       /\ IF Len(b[s]) >= chunk_samples(s)
                            THEN StartFlushSingle
                            ELSE UNCHANGED <<cpc, ftime, fid, clock>>
  /\ cphase' = "main"
  /\ UNCHANGED <<running, config, dir, chunkLog, files, workQ, txOpen, emitted,
                 mainpc, wvars, ovars, tc, evars, received>>

\* final drain and the final flush of a buffer that is not empty
\* (chunker.rs:266-278)
SingleFinalDrain ==
  /\ Alive /\ cpc = "final" /\ config.mode # "both"
  /\ LET b == final_drain(buf, srcQ)
     IN  /\ buf' = b
         /\ srcQ' = [s \in Src |-> <<>>]
         /\ IF b[config.mode] = <<>>
              THEN /\ cpc' = "done"
                   /\ UNCHANGED <<ftime, fid, clock>>
              ELSE StartFlushSingle
  /\ cphase' = "final"
  /\ UNCHANGED <<running, config, produced, dir, chunkLog, files, workQ,
                 txOpen, emitted, mainpc, wvars, ovars, tc, evars, received>>

\* chunker.rs:110-122: the WAV `{time}_{label}.wav` is written, or the
\* write fails and the error leaves run_chunked_single; after a write
\* inside the loop the overlap is retained (chunker.rs:251-256)
FlushWriteSingle ==
  /\ Alive /\ cpc = "write_single"
  /\ \E ok \in BOOLEAN, sil \in SilentChoices(buf[config.mode]) :
       IF ok
         THEN /\ files' = write_wav_i16(files, wav_path(ftime, config.mode),
                                        fid, sil)
              /\ AfterFlush
         ELSE /\ cpc' = "err"
              /\ UNCHANGED <<files, buf, chunkLog>>
  /\ UNCHANGED <<running, clock, config, srcQ, produced, cphase, dir, ftime,
                 fid, workQ, txOpen, emitted, mainpc, wvars, ovars, tc, evars,
                 received>>

run_chunked_single == SingleLoop \/ SingleFinalDrain \/ FlushWriteSingle

(* ------------- the capture sources (capture/, main.rs) ---------------- *)
\* the stream of a source breaks for good and its callback, which owns the
\* sending end of the queue (capture/mic.rs:35-57, capture/system.rs:90-91),
\* is gone; the chunker can notice at its next receive
SourceBreak(s) ==
  /\ Alive /\ cpc = "loop" /\ cap[s] = "started" /\ srcOpen[s]
  /\ srcOpen' = [srcOpen EXCEPT ![s] = FALSE]
  /\ UNCHANGED <<running, clock, config, cvars, files, workQ, txOpen, emitted,
                 mainpc, wvars, ovars, tc, cap, mt, cli, epoch, mx,
                 received>>

\* the source started and stopped first (main.rs:216, 223, 231)
first_source == IF config.mode = "mic" THEN "mic" ELSE "system"

\* stop of a source can fail for the system source only
\* (capture/system.rs:123-126, capture/mic.rs:94-97)
stop_results(s) == IF s = "system" THEN BOOLEAN ELSE {TRUE}

\* main.rs:216, 223, 231: the first source is started; on an error the `?`
\* leaves run and main exits with status 1
MainStart ==
  /\ mainpc = "start"
  /\ \E ok \in BOOLEAN :
       IF ok
         THEN /\ cap' = [cap EXCEPT ![first_source] = "started"]
              /\ mainpc' = IF config.mode = "both" THEN "start_mic" ELSE "run"
         ELSE /\ mainpc' = "exit1"
              /\ UNCHANGED cap
  /\ UNCHANGED <<running, clock, config, cvars, files, workQ, txOpen, emitted,
                 wvars, ovars, tc, srcOpen, mt, cli, epoch, mx,
                 received>>

\* main.rs:232: the mic source is started second
MainStartMic ==
  /\ mainpc = "start_mic"
  /\ \E ok \in BOOLEAN :
       IF ok
         THEN /\ cap' = [cap EXCEPT !["mic"] = "started"]
              /\ mainpc' = "run"
         ELSE /\ mainpc' = "exit1"
              /\ UNCHANGED cap
  /\ UNCHANGED <<running, clock, config, cvars, files, workQ, txOpen, emitted,
                 wvars, ovars, tc, srcOpen, mt, cli, epoch, mx,
                 received>>

\* main.rs:219, 226, 268: the first source is stopped after the chunker (and
\* the pool); on an error the `?` leaves run
MainStop ==
  /\ mainpc = "done"
  /\ \E ok \in stop_results(first_source) :
       IF ok
         THEN /\ cap' = [cap EXCEPT ![first_source] = "stopped"]
              /\ mainpc' = IF config.mode = "both" THEN "stop_mic" ELSE "end"
         ELSE /\ mainpc' = "exit1"
              /\ UNCHANGED cap
  /\ UNCHANGED <<running, clock, config, cvars, files, workQ, txOpen, emitted,
                 wvars, ovars, tc, srcOpen, mt, cli, epoch, mx,
                 received>>

\* main.rs:269: the mic source is stopped second
MainStopMic ==
  /\ mainpc = "stop_mic"
  /\ \E ok \in stop_results("mic") :
       /\ ok
       /\ cap' = [cap EXCEPT !["mic"] = "stopped"]
       /\ mainpc' = "end"
  /\ UNCHANGED <<running, clock, config, cvars, files, workQ, txOpen, emitted,
                 wvars, ovars, tc, srcOpen, mt, cli, epoch, mx,
                 received>>

(* ------------------------ worker pool (pipeline.rs) ------------------- *)
\* a recv that reports the closed queue as soon as the sender is gone
recv_closed_first(q, open) ==
  IF ~open THEN "closed" ELSE IF q # <<>> THEN "ok" ELSE "block"

\* Receiver::recv as the holder of the lock sees it: a descriptor, the
\* closed queue (no sender left and nothing queued), or it blocks
recv(q, open) ==
  IF q # <<>> THEN "ok" ELSE IF ~open THEN "closed" ELSE "block"

\* a file that cannot be opened taken for silent
is_silent_or_missing(fs, path) ==
  \A f \in fs : f.path = path => f.silent

\* is_silent (pipeline.rs:85-107): a file that cannot be opened is not silent
is_silent(fs, path) == \E f \in fs : f.path = path /\ f.silent

\* the (date, timestamp) directory entry of a per-chunk JSON file
json_path(pair) == <<pair.date, pair.timestamp>>

\* the silence checks without the early return
after_silence_no_skip(sys_silent, mic_silent) ==
  IF sys_silent THEN "tr_mic" ELSE "tr_sys"

\* where process_chunk goes after the silence checks (pipeline.rs:119-136)
after_silence(sys_silent, mic_silent) ==
  IF sys_silent /\ mic_silent THEN "ok_skip"
  ELSE IF sys_silent THEN "tr_mic" ELSE "tr_sys"

\* the worker after process_chunk returned Ok (pipeline.rs:74-77)
after_ok(k) ==
  IF config.save_audio THEN At("idle")
  ELSE [k EXCEPT !.pc = "rm_sys", !.segs = 0, !.call = NoCall]

\* a worker that goes on to delete the WAVs after an error
after_err_remove(k) == [k EXCEPT !.pc = "rm_sys", !.segs = 0, !.call = NoCall]

\* the worker after process_chunk returned Err (pipeline.rs:68-72)
after_err(k) == [At("failed") EXCEPT !.pair = k.pair, !.call = k.call]

\* a worker that ends on the first error
after_log_break(k) == At("done")

\* the worker after the error was logged (pipeline.rs:70-71)
after_log(k) == At("idle")

Others ==
  <<running, clock, config, cvars, txOpen, emitted, mainpc, tc, evars>>

\* pipeline.rs:57: a worker takes the receive mutex
WLock(w) ==
  /\ Alive /\ wk[w].pc = "idle" /\ lock = 0
  /\ lock' = w
  /\ wk' = [wk EXCEPT ![w] = At("recv")]
  /\ UNCHANGED <<Others, received, files, workQ, ovars>>

\* a recv that leaves the descriptor it returns in the queue
recv_peek(q) == q

\* the queue after Receiver::recv returned its head (pipeline.rs:58)
recv_rest(q) == Tail(q)

\* a guard that lives on after the block of the recv
guard_kept(w) == w

\* the holder of the mutex after the block of pipeline.rs:56-59: the guard
\* `lock` goes out of scope with the block
guard_dropped(w) == 0

\* pipeline.rs:58-64: recv under the lock; the guard is dropped when recv
\* returns; a closed queue ends the worker
WRecv(w) ==
  /\ Alive /\ wk[w].pc = "recv" /\ lock = w
  /\ recv(workQ, txOpen) # "block"
  /\ IF recv(workQ, txOpen) = "ok"
       THEN /\ wk' = [wk EXCEPT ![w] = [At("sil_sys") EXCEPT !.pair = Head(workQ)]]
            /\ workQ' = recv_rest(workQ)
            /\ received' = Append(received, Head(workQ))
       ELSE /\ wk' = [wk EXCEPT ![w] = At("done")]
            /\ UNCHANGED <<workQ, received>>
  /\ lock' = guard_dropped(w)
  /\ UNCHANGED <<Others, files, ovars>>

\* pipeline.rs:116
WSilentSys(w) ==
  /\ Alive /\ wk[w].pc = "sil_sys"
  /\ wk' = [wk EXCEPT ![w].pc = "sil_mic",
                      ![w].sys_silent = is_silent(files, wk[w].pair.system_path)]
  /\ UNCHANGED <<Others, received, lock, files, workQ, ovars>>

\* pipeline.rs:117-122: the mic check; both silent returns Ok at once
WSilentMic(w) ==
  /\ Alive /\ wk[w].pc = "sil_mic"
  /\ LET mic_silent == is_silent(files, wk[w].pair.mic_path)
         k == [wk[w] EXCEPT !.mic_silent = mic_silent]
         to == after_silence(k.sys_silent, mic_silent)
     IN  wk' = [wk EXCEPT ![w] = IF to = "ok_skip" THEN after_ok(k)
                                 ELSE [k EXCEPT !.pc = to]]
  /\ UNCHANGED <<Others, received, lock, files, workQ, ovars>>

\* the answers seen from start to finish by a call that is retried twice
\* and then succeeds
Retried == <<503, 503, 200>>

\* the outputs begun at the session.jsonl record
first_output_record == "jsonl"

\* the first output step of process_chunk, reached when every needed
\* transcription has returned Ok (pipeline.rs:153-161)
first_output == "json"

\* the mic side transcribed whatever its silence check said
after_system_always(mic_silent) == "tr_mic"

\* where process_chunk goes after the system side was transcribed
\* (pipeline.rs:131-138)
after_system(mic_silent) == IF mic_silent THEN first_output ELSE "tr_mic"

\* the transcript a successful call returns for a side, in the pool
PoolTranscript(side) ==
  [segments |-> <<[start |-> 0, end |-> 2, text |-> <<"s">>]>>,
   words |-> IF side = "system" THEN <<[word |-> <<"a">>, start |-> 0, end |-> 1]>>
             ELSE <<[word |-> <<"b">>, start |-> 1, end |-> 2]>>,
   duration |-> 2]

\* pipeline.rs:124-138: a silent side is None, the two sides are merged
chunk_result(k) ==
  merge_transcripts(
    IF k.sys_silent THEN None ELSE Some(PoolTranscript("system")),
    IF k.mic_silent THEN None ELSE Some(PoolTranscript("mic")))

\* the speakers of the segments of a chunk result
speakers(result) ==
  {result.segments[i].speaker : i \in 1..Len(result.segments)}

\* one call of transcribe by process_chunk (pipeline.rs:128, 135); an error
\* leaves process_chunk through `?`
WTranscribe(w, side) ==
  /\ Alive /\ wk[w].pc = (IF side = "system" THEN "tr_sys" ELSE "tr_mic")
  /\ \E script \in PoolScripts :
       LET k == wk[w]
           path == IF side = "system" THEN k.pair.system_path ELSE k.pair.mic_path
           r == transcribe(path_exists(files, path), script)
           call == [posts |-> r.posts, sleeps |-> r.sleeps, ok |-> r.ok]
           to == IF side = "system" THEN after_system(k.mic_silent) ELSE first_output
           kk == [k EXCEPT !.call = call,
                           !.retry = k.retry \/ r.posts = Retried,
                           !.posted = IF r.posts = <<>> THEN k.posted
                                      ELSE k.posted \cup {side}]
       IN  wk' = [wk EXCEPT ![w] = IF r.ok THEN [kk EXCEPT !.pc = to]
                                   ELSE after_err(kk)]
  /\ UNCHANGED <<Others, received, lock, files, workQ, ovars>>

\* a step of process_chunk fails: the error is returned through `?`
WFail(w) ==
  wk' = [wk EXCEPT ![w] = after_err([wk[w] EXCEPT !.call = NoCall])]

\* a step of process_chunk succeeds and the worker moves to position `to`
WStep(w, to) ==
  wk' = [wk EXCEPT ![w] = [@ EXCEPT !.pc = to, !.call = NoCall]]

\* pipeline.rs:154-161: create_dir_all and the per-chunk JSON, written in full
WWriteJson(w) ==
  /\ Alive /\ wk[w].pc = "json"
  /\ \E ok \in BOOLEAN :
       IF ok
         THEN /\ json' = {j \in json : j.path # json_path(wk[w].pair)}
                           \cup {[path |-> json_path(wk[w].pair), id |-> wk[w].pair.id,
                                   speakers |-> speakers(chunk_result(wk[w]))]}
              /\ jsonLog' = jsonLog (+) SetToBag({wk[w].pair.id})
              /\ WStep(w, "jsonl")
         ELSE /\ WFail(w)
              /\ UNCHANGED <<json, jsonLog>>
  /\ UNCHANGED <<Others, received, lock, files, workQ, jsonl, md>>

\* pipeline.rs:164-170: the record is appended to session.jsonl
WAppendJsonl(w) ==
  /\ Alive /\ wk[w].pc = "jsonl"
  /\ \E ok \in BOOLEAN :
       IF ok
         THEN /\ jsonl' = Append(jsonl, wk[w].pair.id)
              /\ WStep(w, "md_open")
         ELSE /\ WFail(w)
              /\ UNCHANGED jsonl
  /\ UNCHANGED <<Others, received, lock, files, workQ, json, jsonLog, md>>

\* pipeline.rs:194: the document is new when it does not exist or is empty
is_new(doc) == doc = <<>>

\* one line of transcript.md, written by one writeln
Line(k, pair) == [k |-> k, id |-> pair.id]

\* pipeline.rs:194-198: append_markdown tests the document and opens it
WMdOpen(w) ==
  /\ Alive /\ wk[w].pc = "md_open"
  /\ \E ok \in BOOLEAN :
       IF ok
         THEN WStep(w, IF is_new(md) THEN "md_title" ELSE "md_head")
         ELSE WFail(w)
  /\ UNCHANGED <<Others, received, lock, files, workQ, ovars>>

\* pipeline.rs:200-203: the `# Transcript` header
WMdTitle(w) ==
  /\ Alive /\ wk[w].pc = "md_title"
  /\ \E ok \in BOOLEAN :
       IF ok
         THEN /\ md' = Append(md, Line("title", wk[w].pair))
              /\ WStep(w, "md_head")
         ELSE /\ WFail(w)
              /\ UNCHANGED md
  /\ UNCHANGED <<Others, received, lock, files, workQ, json, jsonLog, jsonl>>

\* pipeline.rs:205-220: the `##` line of the block; the merged transcript
\* decides how many speaker lines follow
WMdHead(w) ==
  /\ Alive /\ wk[w].pc = "md_head"
  /\ \E ok \in BOOLEAN, n \in 0..MaxSegLines :
       IF ok
         THEN /\ md' = Append(md, Line("head", wk[w].pair))
              /\ wk' = [wk EXCEPT ![w].pc = IF n > 0 THEN "md_seg" ELSE "md_end",
                                  ![w].segs = n]
         ELSE /\ WFail(w)
              /\ UNCHANGED md
  /\ UNCHANGED <<Others, received, lock, files, workQ, json, jsonLog, jsonl>>

\* pipeline.rs:222-230: one speaker line
WMdSeg(w) ==
  /\ Alive /\ wk[w].pc = "md_seg"
  /\ \E ok \in BOOLEAN :
       IF ok
         THEN /\ md' = Append(md, Line("seg", wk[w].pair))
              /\ wk' = [wk EXCEPT ![w].segs = @ - 1,
                                  ![w].pc = IF wk[w].segs > 1 THEN "md_seg" ELSE "md_end"]
         ELSE /\ WFail(w)
              /\ UNCHANGED md
  /\ UNCHANGED <<Others, received, lock, files, workQ, json, jsonLog, jsonl>>

\* pipeline.rs:232-233 and 175-176: the `---` line; process_chunk returns Ok
WMdEnd(w) ==
  /\ Alive /\ wk[w].pc = "md_end"
  /\ \E ok \in BOOLEAN :
       IF ok
         THEN /\ md' = Append(md, Line("end", wk[w].pair))
              /\ wk' = [wk EXCEPT ![w] = after_ok(wk[w])]
         ELSE /\ WFail(w)
              /\ UNCHANGED md
  /\ UNCHANGED <<Others, received, lock, files, workQ, json, jsonLog, jsonl>>

\* pipeline.rs:75
WRemoveSys(w) ==
  /\ Alive /\ wk[w].pc = "rm_sys"
  /\ files' = remove_file(files, wk[w].pair.system_path)
  /\ wk' = [wk EXCEPT ![w].pc = "rm_mic"]
  /\ UNCHANGED <<Others, received, lock, workQ, ovars>>

\* pipeline.rs:76
WRemoveMic(w) ==
  /\ Alive /\ wk[w].pc = "rm_mic"
  /\ files' = remove_file(files, wk[w].pair.mic_path)
  /\ wk' = [wk EXCEPT ![w] = At("idle")]
  /\ UNCHANGED <<Others, received, lock, workQ, ovars>>

\* pipeline.rs:68-72: the error is logged, the WAVs are kept, the loop goes on
WContinue(w) ==
  /\ Alive /\ wk[w].pc = "failed"
  /\ wk' = [wk EXCEPT ![w] = after_log(wk[w])]
  /\ UNCHANGED <<Others, received, lock, files, workQ, ovars>>

worker(w) ==
  \/ WLock(w) \/ WRecv(w) \/ WSilentSys(w) \/ WSilentMic(w)
  \/ WTranscribe(w, "system") \/ WTranscribe(w, "mic")
  \/ WWriteJson(w) \/ WAppendJsonl(w)
  \/ WMdOpen(w) \/ WMdTitle(w) \/ WMdHead(w) \/ WMdSeg(w) \/ WMdEnd(w)
  \/ WRemoveSys(w) \/ WRemoveMic(w) \/ WContinue(w)

(* --------------------- transcribe called on its own ------------------- *)
\* the inputs of one call: whether the file exists, and what the backend
\* answers to each POST
InitTranscribe ==
  /\ InitWith({[mode |-> "both", live |-> TRUE, mix |-> "split",
                concurrency |-> 0, save_audio |-> FALSE, chunk_duration |-> 1,
                overlap |-> 0]})
  /\ tc \in [readable : BOOLEAN, script : [1..ScriptLen -> Responses],
             result : {NoResult}]
  /\ mt = NoMerge
  /\ cli = NoCli
  /\ mx = NoMix

TranscribeCall ==
  /\ tc.result = NoResult
  /\ tc' = [tc EXCEPT !.result = transcribe(tc.readable, tc.script)]
  /\ UNCHANGED <<running, clock, config, cvars, files, workQ, txOpen, emitted,
                 mainpc, wvars, ovars, evars, received>>

(* ------------- merge_transcripts and dedup_bleed on their own --------- *)
\* largest numbers of mic words, system words and segments of a transcript
MaxMicWords == 4
MaxSysWords == 2
MaxSegments == 2

SeqsUpTo(S, n) == UNION {[1..k -> S] : k \in 0..n}

\* a word of one tick that starts at `start`
WordAt(text, start) == [word |-> text, start |-> start, end |-> start + 1]

\* the words the backend can return: forms that differ in case,
\* punctuation and surrounding whitespace, a word with no letter, and
\* starts half a second, one second and more apart
MicWordPool == {WordAt(t, s) : t \in {<<"A", ",">>, <<"b">>, <<",">>}, s \in {1, 2}}
SysWordPool == {WordAt(t, s) : t \in {<<"a">>, <<" ", "b">>}, s \in {0, 3}}

\* the segments the backend can return
SegmentPool ==
  {[start |-> r[1], end |-> r[2], text |-> <<"s">>] :
     r \in {<<0, 2>>, <<0, 4>>, <<2, 4>>}}

Transcripts(segments, words) ==
  [segments : segments, words : words, duration : {4}]

\* two transcripts of one segment each, with many words; the mic segment
\* spans the transcript or ends where the last mic word can end
WordyInputs ==
  [system : {Some(t) : t \in Transcripts({<<[start |-> 0, end |-> 4, text |-> <<"s">>]>>},
                                         SeqsUpTo(SysWordPool, MaxSysWords))},
   mic : {Some(t) : t \in Transcripts({<<[start |-> 0, end |-> e, text |-> <<"s">>]>> :
                                          e \in {3, 4}},
                                      SeqsUpTo(MicWordPool, MaxMicWords))},
   deduped : {None}, merged : {None}, lines : {None}]

\* transcripts of several segments with few words, either side absent
SegmentedInputs ==
  LET sys == Transcripts(SeqsUpTo(SegmentPool, MaxSegments),
                         SeqsUpTo({WordAt(<<"a">>, s) : s \in {0, 3}}, 1))
      mic == Transcripts(SeqsUpTo(SegmentPool, MaxSegments),
                         SeqsUpTo({WordAt(<<"b">>, s) : s \in {1, 2}}, 2))
  IN  [system : {None} \cup {Some(t) : t \in sys},
       mic : {None} \cup {Some(t) : t \in mic},
       deduped : {None}, merged : {None}, lines : {None}]

InitMerge ==
  /\ InitWith({[mode |-> "both", live |-> TRUE, mix |-> "split",
                concurrency |-> 0, save_audio |-> FALSE, chunk_duration |-> 1,
                overlap |-> 0]})
  /\ tc = [readable |-> FALSE, script |-> <<>>, result |-> NoResult]
  /\ mt \in WordyInputs \cup SegmentedInputs
  /\ cli = NoCli
  /\ mx = NoMix

\* dedup_bleed(sys, m) as merge_transcripts calls it (transcribe.rs:253-255);
\* `matches` is its local of that name
DedupCall ==
  /\ mt.system # None /\ mt.mic # None /\ mt.deduped = None
  /\ mt' = [mt EXCEPT !.deduped =
                Some([mic |-> dedup_bleed(mt.system[1], mt.mic[1]),
                      matches |-> matches(mt.system[1], mt.mic[1])])]
  /\ UNCHANGED <<running, clock, config, cvars, files, workQ, txOpen, emitted,
                 mainpc, wvars, ovars, tc, cap, srcOpen, cli, epoch, mx,
                 received>>

MergeCall ==
  /\ mt.merged = None
  /\ mt' = [mt EXCEPT !.merged = Some(merge_transcripts(mt.system, mt.mic))]
  /\ UNCHANGED <<running, clock, config, cvars, files, workQ, txOpen, emitted,
                 mainpc, wvars, ovars, tc, cap, srcOpen, cli, epoch, mx,
                 received>>

(* ------------- the speaker lines of append_markdown ------------------- *)
\* largest number of segments of a chunk result that is rendered
MaxLineSegments == 3

\* the text of a segment put before the text of the group
push_front(text, more) == more \o text

\* String::push_str (pipeline.rs:214)
push_str(text, more) == text \o more

\* pipeline.rs:211-220: consecutive segments of one speaker become one
\* group (speaker, start, text)
RECURSIVE merge_groups(_, _)
merge_groups(merged, segments) ==
  IF segments = <<>> THEN merged
  ELSE LET seg == Head(segments)
           n == Len(merged)
       IN  IF n > 0 /\ merged[n].speaker = seg.speaker
             THEN merge_groups([merged EXCEPT ![n].text = push_str(@, seg.text)],
                               Tail(segments))
             ELSE merge_groups(Append(merged, [speaker |-> seg.speaker,
                                               start |-> seg.start,
                                               text |-> seg.text]),
                               Tail(segments))

\* pipeline.rs:223-227
speaker_label(speaker) ==
  IF speaker = "you" THEN "You" ELSE IF speaker = "other" THEN "Other" ELSE speaker

\* format_time (pipeline.rs:182-190) of a time in ticks: minutes and whole
\* seconds, the fraction cut off
format_time(t) ==
  LET seconds == t \div TicksPerSecond
  IN  [m |-> seconds \div 60, s |-> seconds % 60]

\* pipeline.rs:210-230: the speaker lines of one block, as written
speaker_lines(segments) ==
  LET merged == merge_groups(<<>>, segments)
  IN  [i \in 1..Len(merged) |->
         [label |-> speaker_label(merged[i].speaker), ts |-> format_time(merged[i].start),
          text |-> trim(merged[i].text)]]

\* the segments a chunk result can hold: texts with and without
\* surrounding whitespace, starts one second apart
LineSegmentPool ==
  [speaker : {"other", "you"}, start : {0, TicksPerSecond}, end : {4},
   text : {<<" ", "a">>, <<"b">>, <<"b", " ">>}, words : {<<>>}]

\* merge_transcripts returns its segments sorted by start
IsSorted(segments) ==
  \A i, j \in 1..Len(segments) : i < j => segments[i].start <= segments[j].start

\* the chunk results append_markdown is called with
InitRender ==
  /\ InitWith({[mode |-> "both", live |-> TRUE, mix |-> "split",
                concurrency |-> 0, save_audio |-> FALSE, chunk_duration |-> 1,
                overlap |-> 0]})
  /\ tc = [readable |-> FALSE, script |-> <<>>, result |-> NoResult]
  /\ cli = NoCli
  /\ mx = NoMix
  /\ mt \in [system : {None}, mic : {None}, deduped : {None},
              merged : {Some([segments |-> s, duration |-> 4]) :
                          s \in {q \in SeqsUpTo(LineSegmentPool, MaxLineSegments) :
                                   IsSorted(q)}},
              lines : {None}]

\* append_markdown renders the segments of a result (pipeline.rs:210-230)
RenderCall ==
  /\ mt.merged # None /\ mt.lines = None
  /\ mt' = [mt EXCEPT !.lines = Some(speaker_lines(mt.merged[1].segments))]
  /\ UNCHANGED <<running, clock, config, cvars, files, workQ, txOpen, emitted,
                 mainpc, wvars, ovars, tc, cap, srcOpen, cli, epoch, mx,
                 received>>

(* ---------------------------- specifications -------------------------- *)
run_chunked_both ==
  \/ ChunkerLoop \/ ChunkerFinalDrain
  \/ FlushWriteSys \/ FlushWriteMic \/ FlushSend \/ FlushWriteStereo

capture_sources ==
  \/ MainStart \/ MainStartMic \/ MainStop \/ MainStopMic
  \/ \E s \in Src : SourceBreak(s)

Next ==
  \/ Cancel
  \/ capture_sources
  \/ run_chunked_both \/ run_chunked_single
  \/ MainDropTx \/ MainShutdown \/ MainNoPipeline \/ MainError
  \/ \E w \in Workers : worker(w)

Spec == Init /\ [][Next]_vars

\* transcribe on its own
NextTranscribe == TranscribeCall
SpecTranscribe == InitTranscribe /\ [][NextTranscribe]_vars

\* merge_transcripts and dedup_bleed on their own
NextMerge == DedupCall \/ MergeCall
SpecMerge == InitMerge /\ [][NextMerge]_vars

\* append_markdown's speaker lines on their own
NextRender == RenderCall
SpecRender == InitRender /\ [][NextRender]_vars

\* interleave_stereo and resample on their own
InitMixer ==
  /\ InitWith({[mode |-> "both", live |-> TRUE, mix |-> "split",
                concurrency |-> 0, save_audio |-> FALSE, chunk_duration |-> 1,
                overlap |-> 0]})
  /\ tc = [readable |-> FALSE, script |-> <<>>, result |-> NoResult]
  /\ mt = NoMerge
  /\ cli = NoCli
  /\ mx \in StereoInputs \cup ResampleInputs
NextMixer == InterleaveCall \/ ResampleCall
SpecMixer == InitMixer /\ [][NextMixer]_vars

\* the start of run on its own, under every command line, with and
\* without the key in the environment
InitArgs ==
  /\ InitWith({[mode |-> "both", live |-> TRUE, mix |-> "split",
                concurrency |-> 0, save_audio |-> FALSE, chunk_duration |-> 1,
                overlap |-> 0]})
  /\ tc = [readable |-> FALSE, script |-> <<>>, result |-> NoResult]
  /\ mt = NoMerge
  /\ cli \in [args : Args, key : BOOLEAN, pc : {"run"}]
  /\ mx = NoMix
NextArgs == RunDispatch \/ RunTranscribePair \/ RunTranscribe \/ ResolveBackend
SpecArgs == InitArgs /\ [][NextArgs]_vars

\* the chunker without a pool: recording only, or live with no worker
InitChunker ==
  /\ InitWith(RecordConfigs \cup {c \in LiveConfigs : c.concurrency = 0})
  /\ NoTranscribe
NextChunker ==
  \/ Cancel
  \/ run_chunked_both
  \/ MainDropTx \/ MainShutdown \/ MainNoPipeline \/ MainError
SpecChunker == InitChunker /\ [][NextChunker]_vars

\* the same runs entered in the last second before local midnight
InitMidnight ==
  /\ epoch = DayLen - 1
  /\ InitRun(RecordConfigs \cup {c \in LiveConfigs : c.concurrency = 0})
  /\ mainpc = "run"
  /\ cap = [s \in Src |-> "started"]
  /\ NoTranscribe
SpecMidnight == InitMidnight /\ [][NextChunker]_vars

\* a recording-only run from the start of its sources to their stop, with
\* one source or two
InitCapture == InitStart(RecordConfigs \cup SingleConfigs) /\ NoTranscribe
NextCapture ==
  \/ Cancel
  \/ capture_sources
  \/ run_chunked_both \/ run_chunked_single
  \/ MainNoPipeline \/ MainError
SpecCapture == InitCapture /\ [][NextCapture]_vars

\* live transcription with the pool
NextPool ==
  \/ Cancel
  \/ ChunkerLoop \/ ChunkerFinalDrain
  \/ FlushWriteSys \/ FlushWriteMic \/ FlushSend
  \/ MainDropTx \/ MainShutdown \/ MainError
  \/ \E w \in Workers : worker(w)

\* a pool of one worker, under every configuration
InitWorker == InitWith({c \in LiveConfigs : c.concurrency = 1}) /\ NoTranscribe
SpecWorker == InitWorker /\ [][NextPool]_vars

\* a full pool whose workers delete the WAVs, the chunks as long and as
\* overlapping as the bounds allow
InitPool ==
  /\ InitWith({c \in LiveConfigs : /\ c.concurrency = MaxWorkers
                                   /\ ~c.save_audio
                                   /\ c.chunk_duration = MaxChunkDur
                                   /\ c.overlap = MaxOverlap})
  /\ NoTranscribe
SpecPool == InitPool /\ [][NextPool]_vars

\* the threads under a fair scheduler: the main thread, which runs the
\* chunker and then shuts the pool down, and every worker thread; the
\* interrupt is not owed to anyone
main_thread ==
  \/ ChunkerLoop \/ ChunkerFinalDrain
  \/ FlushWriteSys \/ FlushWriteMic \/ FlushSend
  \/ MainDropTx \/ MainShutdown \/ MainError
Fairness ==
  /\ WF_vars(main_thread)
  /\ \A w \in Workers : WF_vars(worker(w))

\* pools under the fair scheduler: one worker, and a full pool with chunks
\* that do not overlap
InitFair ==
  /\ InitWith({c \in LiveConfigs :
                 /\ c.chunk_duration = MaxChunkDur
                 /\ \/ c.concurrency = 1
                    \/ c.concurrency = MaxWorkers /\ c.overlap = 0})
  /\ NoTranscribe
SpecFair == InitFair /\ [][NextPool]_vars /\ Fairness

(* ------------------------------- claims ------------------------------- *)
\* the POSTs of the call answered so far are all retryable answers
AllRetryable(script) ==
  \A i \in 1..ScriptLen : script[i].kind = "http" /\ retryable(script[i].status)

\* C6: a call whose every POST is answered with 429 or a 5xx status makes
\* exactly 3 POSTs, never a 4th and never fewer, and returns an error.
C6_ThreeAttempts ==
  (tc.result # NoResult /\ tc.readable /\ AllRetryable(tc.script))
    => /\ Len(tc.result.posts) = 3
       /\ ~tc.result.ok
       /\ tc.result.err[1] = "API error"

C6_Witness ==
  /\ tc.result.posts = <<500, 500, 500>>
  /\ AllRetryable(tc.script)
  /\ ~tc.result.ok

\* C8: an answer whose status is not 2xx, 429 or 5xx ends the call after
\* exactly one POST and no sleep, with an error carrying that status and
\* the response body; a call that exhausts its attempts returns an error of
\* the same shape, carrying the last status and body.
C8_ApiError ==
  (tc.result # NoResult /\ tc.readable)
    => LET first == tc.script[1]
           last == tc.script[3]
       IN  /\ (first.kind = "http" /\ ~is_success(first.status)
                                   /\ ~retryable(first.status))
                => /\ tc.result.posts = <<first.status>>
                   /\ tc.result.sleeps = <<>>
                   /\ ~tc.result.ok
                   /\ tc.result.err = <<"API error", first.status, first.body>>
           /\ AllRetryable(tc.script)
                => /\ ~tc.result.ok
                   /\ tc.result.err = <<"API error", last.status, last.body>>

C8_Witness ==
  /\ tc.result.posts = <<400>>
  /\ tc.result.err = <<"API error", 400, "overloaded">>
  /\ tc.script[2].status = 200

\* the samples of source s in the chunk e
ChunkBuf(e, s) == IF s = "system" THEN e.system ELSE e.mic

\* the samples of source s that were flushed in some chunk
Flushed(s) == UNION {Range(ChunkBuf(chunkLog[i], s)) : i \in 1..Len(chunkLog)}

\* the last chunk flushed holds exactly the buffers b and is chunk number id
LastChunkIs(b, id) ==
  /\ chunkLog # <<>>
  /\ LET e == chunkLog[Len(chunkLog)]
     IN  e.id = id /\ e.system = b["system"] /\ e.mic = b["mic"]

\* C2: when run_chunked_both has returned after the flag was cleared, both
\* source queues were drained once more, every sample that arrived is in
\* some flushed chunk, and a non-empty residue was flushed whole as the one
\* last chunk, whatever its length, its descriptor emitted when the mode is
\* split and a queue is given.
C2_FinalFlush ==
  cpc = "done" =>
    /\ ~running
    /\ \A s \in Src : srcQ[s] = <<>>
    /\ \A s \in Src : \A n \in 1..produced[s] : n \in Flushed(s)
    /\ (buf["system"] # <<>> \/ buf["mic"] # <<>>)
         => /\ LastChunkIs(buf, fid)
            /\ chunk_tx => /\ emitted # <<>>
                           /\ emitted[Len(emitted)].id = fid

\* a final chunk shorter than chunk_samples on both sides, flushed after an
\* earlier full chunk and emitted
C2_Witness ==
  /\ cpc = "done" /\ chunk_tx
  /\ Len(chunkLog) = 2
  /\ buf["system"] # <<>>
  /\ ~chunk_ready(buf)
  /\ LastChunkIs(buf, fid)
  /\ emitted[Len(emitted)].id = fid

\* C3: in split mode the descriptor of a chunk is sent only after both WAV
\* writes of that chunk returned successfully, so that both files it names
\* exist when it is emitted; after a failed write no descriptor of the
\* chunk is emitted.
C3_FilesExistAtEmission ==
  /\ (cpc = "send" /\ chunk_tx)
       => /\ path_exists(files, ChunkPair.system_path)
          /\ path_exists(files, ChunkPair.mic_path)
  /\ cpc = "err" => \A i \in 1..Len(emitted) : emitted[i].id # fid

\* the number of entries of seq equal to x
Count(seq, x) == Cardinality({i \in DOMAIN seq : seq[i] = x})

\* the outputs of process_chunk for the descriptor id
HasJson(id) == CopiesIn(id, jsonLog) >= 1
HasRecord(id) == Count(jsonl, id) >= 1
HasBlock(id) ==
  \E i, j \in DOMAIN md :
    i < j /\ md[i] = [k |-> "head", id |-> id] /\ md[j] = [k |-> "end", id |-> id]
AllOutputs(id) == HasJson(id) /\ HasRecord(id) /\ HasBlock(id)
NoOutput(id) ==
  /\ ~HasJson(id) /\ ~HasRecord(id)
  /\ \A i \in DOMAIN md : md[i].id # id

\* the worker is at the deletion of the WAVs of the descriptor it holds
Deleting(w) == wk[w].pc \in {"rm_sys", "rm_mic"}
\* the descriptor the worker holds was skipped as silent on both sides
Skipped(w) == wk[w].sys_silent /\ wk[w].mic_silent

\* C4 as stated: whenever a worker deletes the WAVs of a descriptor, the
\* per-chunk JSON, the session.jsonl record and the narrative block of that
\* descriptor were written before, also when both WAVs are silent.
C4_OutputsBeforeDelete ==
  \A w \in Workers : Deleting(w) => AllOutputs(wk[w].pair.id)

\* C4 amended: whenever a worker deletes the WAVs of a descriptor that was
\* not skipped as silent on both sides, its three outputs were written
\* before; the WAVs of a descriptor silent on both sides are deleted with
\* none of the three outputs written.
C4_OutputsBeforeDeleteUnlessSilent ==
  \A w \in Workers :
    Deleting(w) => IF Skipped(w) THEN NoOutput(wk[w].pair.id)
                   ELSE AllOutputs(wk[w].pair.id)

\* a worker has deleted the system WAV of a transcribed descriptor and is
\* about to delete the mic WAV
C4_Witness ==
  \E w \in Workers :
    /\ wk[w].pc = "rm_mic" /\ ~Skipped(w)
    /\ ~path_exists(files, wk[w].pair.system_path)
    /\ AllOutputs(wk[w].pair.id)

\* the sleeps of a call that made n POSTs: 2 s, then 4 s, none after the last
Backoff(n) == SubSeq(<<2, 4>>, 1, n - 1)

\* each output of the descriptor id was written at most / exactly once
AtMostOnce(id) ==
  /\ CopiesIn(id, jsonLog) <= 1
  /\ Count(jsonl, id) <= 1
  /\ Count(md, [k |-> "head", id |-> id]) <= 1
  /\ Count(md, [k |-> "end", id |-> id]) <= 1
ExactlyOnce(id) ==
  /\ CopiesIn(id, jsonLog) = 1
  /\ Count(jsonl, id) = 1
  /\ Count(md, [k |-> "head", id |-> id]) = 1
  /\ Count(md, [k |-> "end", id |-> id]) = 1

\* C7: a call of transcribe sleeps 2 s before its second attempt and 4 s
\* before its third and does not sleep after its last attempt; a call
\* answered 503, 503, 200 succeeds on the third attempt, and the outputs of
\* its chunk are each written once: never twice, and all of them once
\* process_chunk has returned.
C7_BackoffThenOnce ==
  \A w \in Workers :
    /\ wk[w].call.posts # <<>>
         => wk[w].call.sleeps = Backoff(Len(wk[w].call.posts))
    /\ wk[w].call.posts = Retried => wk[w].call.ok
    /\ wk[w].retry => /\ AtMostOnce(wk[w].pair.id)
                      /\ Deleting(w) => ExactlyOnce(wk[w].pair.id)

\* process_chunk has returned for a chunk whose call was answered 503, 503,
\* 200, and one whose call has just been retried twice
C7_Witness ==
  \E w \in Workers :
    /\ wk[w].retry /\ wk[w].pc = "rm_sys"
    /\ ExactlyOnce(wk[w].pair.id)
    /\ path_exists(files, wk[w].pair.system_path)

\* every worker of the pool has left its loop
AllTerminated == \A w \in Workers : wk[w].pc \in {"done", "off"}

\* C1: in live mode, once run_chunked_both has returned normally the
\* sender is dropped, every descriptor emitted is taken off the queue and
\* processed, every worker sees the closed queue and terminates, and
\* pipeline::shutdown returns; and no worker terminates while a descriptor
\* is still queued.
C1_DrainThenJoin ==
  /\ [](\A w \in Workers : wk[w].pc = "done" => workQ = <<>> /\ ~txOpen)
  /\ (cpc = "done") ~> (mainpc = "done" /\ ~txOpen /\ workQ = <<>> /\ AllTerminated)

\* shutdown has returned after the one worker of a pool received and
\* processed both descriptors of the run
C1_Witness ==
  /\ mainpc = "done" /\ ~running /\ AllTerminated
  /\ config.concurrency = 1
  /\ Len(emitted) = 2 /\ workQ = <<>>
  /\ ExactlyOnce(1) /\ ExactlyOnce(2)

\* everything but the files and the workers
Rest == <<running, clock, config, cvars, workQ, txOpen, emitted, mainpc,
          lock, ovars, tc>>

\* C5: when process_chunk fails for a descriptor, the worker deletes
\* neither WAV of it, stays alive and returns to the head of its loop to
\* receive the next descriptor; the other workers, the queue and the
\* chunker are left as they were.
C5_FailureIsolated ==
  [][\A w \in Workers :
       /\ (wk[w].pc # "failed" /\ wk'[w].pc = "failed")
            => /\ files' = files
               /\ wk'[w].pair = wk[w].pair
               /\ \A v \in Workers \ {w} : wk'[v] = wk[v]
               /\ UNCHANGED <<running, config, cvars, workQ, txOpen, emitted,
                              mainpc, lock>>
       /\ (wk[w].pc = "failed" /\ wk'[w] # wk[w])
            => /\ files' = files
               /\ wk'[w] = At("idle")
               /\ \A v \in Workers \ {w} : wk'[v] = wk[v]
               /\ UNCHANGED Rest]_vars

\* process_chunk has failed for one worker, both WAVs of its descriptor are
\* there, and the other worker is writing the outputs of another descriptor
C5_Witness ==
  \E w, v \in Workers :
    /\ wk[w].pc = "failed" /\ wk[v].pc = "md_head"
    /\ wk[w].pair.id # wk[v].pair.id
    /\ \E f \in files : f.path = wk[w].pair.system_path /\ f.id = wk[w].pair.id
    /\ \E f \in files : f.path = wk[w].pair.mic_path /\ f.id = wk[w].pair.id

\* the lines of the narrative document that are `# Transcript` headers
Titles == {i \in DOMAIN md : md[i].k = "title"}

\* C9: whatever the interleaving of the workers, the `# Transcript` header
\* is in the narrative document exactly once, written by the first append.
C9_OneTitle ==
  md # <<>> => Titles = {1}

\* C10: the records of the shared files are not interleaved: session.jsonl
\* holds one record for a chunk, and the lines of a chunk's block of the
\* narrative document are contiguous, no line of another worker's chunk
\* between them.
C10_NoInterleaving ==
  /\ \A i \in DOMAIN jsonl : Count(jsonl, jsonl[i]) = 1
  /\ \A i, j, k \in DOMAIN md :
       (i < j /\ j < k /\ md[i].k # "title" /\ md[k].k # "title"
          /\ md[i].id = md[k].id)
         => md[j].k # "title" /\ md[j].id = md[i].id

(* ------------------------- capture sources ---------------------------- *)
\* C11: whenever run has ended, with or without an error, no capture
\* source that was started is left without its stop.
C11_StartedIsStopped ==
  mainpc \in {"end", "exit1"} => \A s \in Src : cap[s] # "started"

\* C12: an iteration of the chunker's main loop that begins with the flag
\* up and the queue of one of its sources closed leaves the loop for the
\* final drain and flush, in run_chunked_both and in run_chunked_single.
C12_ClosedQueueEndsStream ==
  [][(/\ cpc = "loop" /\ running
      /\ \E s \in Sources : ~srcOpen[s]
      /\ (buf' # buf \/ cpc' # cpc))
       => cpc' = "final"]_vars

(* --------------------------- the work queue --------------------------- *)
\* C13: the descriptors are emitted in the order in which the chunker
\* completed its chunks, and the k-th successful receive, by whichever
\* worker, returned the k-th emitted descriptor; what is still queued is
\* the rest of the emitted descriptors, in order.
C13_FifoOrder ==
  /\ Len(emitted) = Len(chunkLog)
  /\ \A k \in 1..Len(emitted) : emitted[k].id = chunkLog[k].id
  /\ Len(received) <= Len(emitted)
  /\ \A k \in 1..Len(received) : received[k] = emitted[k]
  /\ emitted = received \o workQ

\* two descriptors were received by two workers, and the worker that
\* received the second has finished it while the first is still in work
C13_Witness ==
  /\ Len(received) = 2
  /\ \E w \in Workers :
       /\ wk[w].pair = received[1]
       /\ \A v \in Workers \ {w} : wk[v].pc = "idle"
       /\ jsonl = <<received[2].id>>

(* --------------------------- silent sides ----------------------------- *)
\* the WAV at `path` exists and holds silence
SilentWav(path) == \E f \in files : f.path = path /\ f.silent

\* C14: when is_silent has answered true for the system WAV and answers
\* true for the mic WAV, process_chunk returns success at once: the worker
\* goes on to the deletion (or to its next receive when audio is kept), no
\* POST was made, and no JSON, no session.jsonl record and no line of the
\* narrative document exists for the descriptor.
C14_BothSilentSkips ==
  [][\A w \in Workers :
       (/\ wk[w].pc = "sil_mic" /\ wk[w].sys_silent
        /\ SilentWav(wk[w].pair.mic_path)
        /\ wk'[w] # wk[w])
         => /\ wk'[w].pc = (IF config.save_audio THEN "idle" ELSE "rm_sys")
            /\ wk[w].call.posts = <<>> /\ wk'[w].call.posts = <<>>
            /\ ovars' = ovars
            /\ ~HasJson(wk[w].pair.id) /\ ~HasRecord(wk[w].pair.id)
            /\ \A i \in DOMAIN md : md[i].id # wk[w].pair.id]_vars

\* a worker skipped a descriptor silent on both sides and is about to
\* delete its WAVs, with no output written for it
C14_Witness ==
  \E w \in Workers :
    /\ wk[w].pc = "rm_sys" /\ Skipped(w)
    /\ SilentWav(wk[w].pair.system_path) /\ SilentWav(wk[w].pair.mic_path)
    /\ NoOutput(wk[w].pair.id)

(* --------------------- bleed removal and the merge -------------------- *)
\* the normalized form of a word: its alphanumeric characters, lowercased
Form(text) ==
  LET kept == SelectSeq(text, is_alphanumeric)
  IN  [i \in 1..Len(kept) |-> to_lowercase(kept[i])]

\* the mic word mw matches: some system word has its form, which is not
\* empty, and starts strictly less than one second away
Matching(sys_words, mw) ==
  /\ Form(mw.word) # <<>>
  /\ \E k \in 1..Len(sys_words) :
       /\ Form(sys_words[k].word) = Form(mw.word)
       /\ Abs(mw.start - sys_words[k].start) < TicksPerSecond

\* position i lies in a run of at least three consecutive positions that
\* all satisfy m
InLongRun(m, i) ==
  \E lo \in 1..i, hi \in i..Len(m) :
    hi - lo + 1 >= 3 /\ \A j \in lo..hi : m[j]

\* the words from position i on that are in no such run, in order
RECURSIVE Survivors(_, _, _)
Survivors(words, m, i) ==
  IF i > Len(words) THEN <<>>
  ELSE (IF InLongRun(m, i) THEN <<>> ELSE <<words[i]>>)
       \o Survivors(words, m, i + 1)

\* C16: dedup_bleed removes a mic word exactly when it lies in a maximal
\* run of at least three consecutive matching mic words; every word of
\* such a run is removed, and the words of shorter runs and the words that
\* do not match stay, in their original order.
C16_LongRunsRemoved ==
  mt.deduped # None =>
    LET words == mt.mic[1].words
        m == [i \in 1..Len(words) |-> Matching(mt.system[1].words, words[i])]
    IN  mt.deduped[1].mic.words = Survivors(words, m, 1)

\* four mic words, three of them a run of matches that was removed, and
\* the fourth kept
C16_Witness ==
  /\ mt.deduped # None
  /\ Len(mt.mic[1].words) = 4
  /\ Len(mt.deduped[1].mic.words) = 1
  /\ \E i \in {1, 4} : mt.deduped[1].mic.words = <<mt.mic[1].words[i]>>

\* C17: dedup_bleed takes a mic word for a match exactly when some system
\* word has the same normalized form, not empty, and a start strictly less
\* than 1.0 s from the mic word's start.
C17_MatchRule ==
  mt.deduped # None =>
    \A i \in 1..Len(mt.mic[1].words) :
      mt.deduped[1].matches[i] <=> Matching(mt.system[1].words, mt.mic[1].words[i])

\* one mic word matches a system word written in another case and with
\* punctuation, one has no letter, and one has its only same-form system
\* word exactly 1.0 s away
C17_Witness ==
  /\ mt.deduped # None
  /\ \E i, j, n \in 1..Len(mt.mic[1].words) :
       LET mic == mt.mic[1].words
           sys == mt.system[1].words
       IN  /\ mt.deduped[1].matches[i]
           /\ \A k \in 1..Len(sys) : sys[k].word # mic[i].word
           /\ Form(mic[j].word) = <<>> /\ ~mt.deduped[1].matches[j]
           /\ ~mt.deduped[1].matches[n]
           /\ \E k \in 1..Len(sys) :
                /\ Form(sys[k].word) = Form(mic[n].word)
                /\ Abs(mic[n].start - sys[k].start) = TicksPerSecond

\* the segments merge_transcripts sorts: those of the system transcript,
\* then those of the mic transcript after the bleed removal
MergeInput ==
  LET sys == IF mt.system = None THEN <<>> ELSE mt.system[1].segments
      mic == IF mt.mic = None THEN <<>>
             ELSE IF mt.system = None THEN mt.mic[1].segments
             ELSE dedup_bleed(mt.system[1], mt.mic[1]).segments
  IN  [i \in 1..Len(sys) |-> [speaker |-> "other", start |-> sys[i].start,
                              end |-> sys[i].end]]
      \o [i \in 1..Len(mic) |-> [speaker |-> "you", start |-> mic[i].start,
                                 end |-> mic[i].end]]

\* speaker, start and end of the segments of a merge result
Outline(segs) ==
  [i \in 1..Len(segs) |-> [speaker |-> segs[i].speaker, start |-> segs[i].start,
                           end |-> segs[i].end]]

\* the elements of segs that start at t, in order
StartingAt(segs, t) ==
  LET At_t(s) == s.start = t IN SelectSeq(segs, At_t)

\* C18: merge_transcripts returns its segments in nondecreasing order of
\* start, and segments with equal starts in insertion order: system
\* (`other`) before mic (`you`), and within a source in original order.
C18_StableByStart ==
  mt.merged # None =>
    LET out == Outline(mt.merged[1].segments)
    IN  /\ Len(out) = Len(MergeInput)
        /\ \A i, j \in 1..Len(out) : i < j => out[i].start <= out[j].start
        /\ \A t \in 0..4 : StartingAt(out, t) = StartingAt(MergeInput, t)

\* the merge moved a segment forward, and kept, among segments with equal
\* starts, a system segment before a mic segment and two segments of one
\* source in their order
C18_Witness ==
  /\ mt.merged # None
  /\ Outline(mt.merged[1].segments) # MergeInput
  /\ \E i, j, k \in 1..Len(mt.merged[1].segments) :
       LET out == mt.merged[1].segments
       IN  /\ i < j /\ j < k
           /\ out[i].start = out[j].start /\ out[j].start = out[k].start
           /\ out[i].speaker = "other" /\ out[j].speaker = "other"
           /\ out[i].end # out[j].end
           /\ out[k].speaker = "you"

\* the words of the source of a speaker segment: the system transcript's,
\* or the mic transcript's after the bleed removal
SourceWords(speaker) ==
  IF speaker = "other" THEN mt.system[1].words
  ELSE IF mt.system = None THEN mt.mic[1].words
  ELSE dedup_bleed(mt.system[1], mt.mic[1]).words

\* C19: the words of every speaker segment are exactly the words w of its
\* source transcript with seg.start <= w.start and w.end <= seg.end, in
\* transcript order; system segments carry `other`, mic segments `you`.
C19_SegmentWords ==
  mt.merged # None =>
    /\ \A sp \in {"other", "you"} :
         LET Of(s) == s.speaker = sp
         IN  Len(SelectSeq(mt.merged[1].segments, Of))
               = Len(SelectSeq(MergeInput, Of))
    /\ \A i \in 1..Len(mt.merged[1].segments) :
         LET seg == mt.merged[1].segments[i]
             Inside(w) == seg.start <= w.start /\ w.end <= seg.end
         IN  /\ seg.speaker \in {"other", "you"}
             /\ seg.speaker = "other" => mt.system # None
             /\ seg.speaker = "you" => mt.mic # None
             /\ seg.words = SelectSeq(SourceWords(seg.speaker), Inside)

\* three of four mic words were removed as bleed: the `you` segment holds
\* the one word left and the `other` segment the system words
C19_Witness ==
  /\ mt.merged # None /\ mt.system # None /\ mt.mic # None
  /\ Len(mt.mic[1].words) = 4
  /\ \E i, j \in 1..Len(mt.merged[1].segments) :
       LET segs == mt.merged[1].segments
       IN  /\ segs[i].speaker = "other" /\ segs[i].words = mt.system[1].words
           /\ segs[j].speaker = "you" /\ Len(segs[j].words) = 1
           /\ segs[j].words[1] \in Range(mt.mic[1].words)

(* ------------------------- one side silent ---------------------------- *)
\* C15: for a descriptor with exactly one silent side, only the other side
\* is POSTed to the backend and the chunk result written to the per-chunk
\* JSON holds segments of that side's speaker alone (`other` for system,
\* `you` for mic); when process_chunk has succeeded and audio is not kept,
\* the worker removes the system WAV and then the mic WAV.
C15_OneSideSilent ==
  [][\A w \in Workers :
       LET k == wk[w]
           loud == IF k.sys_silent THEN "mic" ELSE "system"
           label == IF k.sys_silent THEN "you" ELSE "other"
       IN  (k.sys_silent # k.mic_silent /\ wk'[w] # k) =>
             /\ k.pc \in {"tr_sys", "tr_mic"} =>
                  /\ k.pc = (IF loud = "system" THEN "tr_sys" ELSE "tr_mic")
                  /\ wk'[w].posted \subseteq {loud}
             /\ (k.pc = "json" /\ wk'[w].pc = "jsonl") =>
                  /\ k.posted = {loud}
                  /\ \E j \in json' :
                       /\ j.path = json_path(k.pair) /\ j.id = k.pair.id
                       /\ j.speakers \subseteq {label}
             /\ (k.pc = "md_end" /\ wk'[w].pc # "failed" /\ ~config.save_audio) =>
                  wk'[w].pc = "rm_sys" /\ wk'[w].pair = k.pair
             /\ k.pc = "rm_sys" =>
                  /\ ~path_exists(files', k.pair.system_path)
                  /\ wk'[w].pc = "rm_mic" /\ wk'[w].pair = k.pair
             /\ k.pc = "rm_mic" => ~path_exists(files', k.pair.mic_path)]_vars

\* a descriptor with a silent mic side: the system side alone was POSTed,
\* the per-chunk JSON holds `other` segments only, the system WAV is
\* deleted and the mic WAV is about to be
C15_Witness ==
  \E w \in Workers :
    /\ wk[w].pc = "rm_mic" /\ ~wk[w].sys_silent /\ wk[w].mic_silent
    /\ wk[w].posted = {"system"}
    /\ \E j \in json : j.id = wk[w].pair.id /\ j.speakers = {"other"}
    /\ ~path_exists(files, wk[w].pair.system_path)
    /\ path_exists(files, wk[w].pair.mic_path)

(* ------------------------------ overlap ------------------------------- *)
\* a flush inside the main loop returns Ok and the loop goes on
FlushedInLoop ==
  /\ cpc \in {"send", "write_stereo", "write_single"}
  /\ cphase = "main" /\ cpc' = "loop"

\* C20: after a flush inside the main loop each source buffer holds exactly
\* its last overlap_samples samples, or all of its samples when it had
\* fewer; with an overlap of 0 both buffers are empty.  This holds in
\* run_chunked_both and in run_chunked_single.
C20_OverlapRetained ==
  [][FlushedInLoop =>
       \A s \in Src :
         LET n == IF Len(buf[s]) <= overlap_samples(s) THEN Len(buf[s])
                  ELSE overlap_samples(s)
         IN  /\ Len(buf'[s]) = n
             /\ \A i \in 1..n : buf'[s][i] = buf[s][Len(buf[s]) - n + i]
             /\ config.overlap = 0 => buf'[s] = <<>>]_vars

\* a chunk of two samples of one source was flushed inside the loop and
\* the buffer of that source now holds the second of them alone
C20_Witness ==
  /\ cpc = "loop" /\ cphase = "main" /\ chunkLog # <<>>
  /\ \E s \in Src :
       LET last == chunkLog[Len(chunkLog)]
       IN  /\ Len(last[s]) = 2
           /\ buf[s] = <<last[s][2]>>

(* --------------------- per-chunk JSON files --------------------------- *)
\* the chunks whose processing wrote a per-chunk JSON file
WroteJson == BagToSet(jsonLog)

\* C21: every chunk that reaches the output stage gets its own per-chunk
\* JSON file, and the outputs of a later chunk never overwrite or remove
\* the file of an earlier one: each chunk that wrote a file still has it,
\* and there are as many files as chunks that wrote one.
C21_OwnJsonFile ==
  /\ \A id \in WroteJson : \E j \in json : j.id = id
  /\ Cardinality(json) = Cardinality(WroteJson)

(* ------------------------- deletion of the WAVs ----------------------- *)
\* the WAV files a step removes
Removed == files \ files'

\* C22: with save_audio set no worker step deletes a WAV; with save_audio
\* unset a worker deletes WAVs only after process_chunk returned Ok, and
\* then removes the system WAV and the mic WAV of its descriptor and
\* touches the WAV of no other descriptor.
C22_DeletesOwnWavsOnly ==
  [][\A w \in Workers :
       LET k == wk[w]
       IN  wk'[w] # k =>
             /\ files' \subseteq files
             /\ config.save_audio => files' = files
             /\ Removed # {} => Deleting(w)
             /\ \A f \in Removed : f.id = k.pair.id
             /\ k.pc = "rm_sys" => ~path_exists(files', k.pair.system_path)
             /\ k.pc = "rm_mic" => ~path_exists(files', k.pair.mic_path)]_vars

(* ------------------------- OPENAI_API_KEY ----------------------------- *)
\* run has got past its arguments: it ended on a missing key, or went on
\* to a one-shot transcription or to capture
Resolved ==
  cli.pc \in {"err_no_key", "one_shot", "record_only", "live_remote", "live_local"}

\* C23: the absence of OPENAI_API_KEY is fatal if and only if --api-url is
\* given; without --api-url every mode, the one-shot --transcribe and
\* --transcribe-pair included, proceeds without the key.
C23_KeyRequiredIffApiUrl ==
  (Resolved /\ ~cli.key) => (cli.pc = "err_no_key" <=> cli.args.api_url)

(* ------------------------- the flush condition ------------------------ *)
\* run_chunked_both makes one iteration of its main loop
LoopIteration ==
  /\ cpc = "loop" /\ running /\ config.mode = "both"
  /\ cvars' # cvars

\* the flush of a chunk has begun
InFlush == cpc \in {"write_sys", "write_mic", "send", "write_stereo"}

C25_ClampedOverlap ==
  [][/\ overlap = Min(config.overlap, config.chunk_duration - 1)
     /\ \A s \in Src : overlap_samples(s) < chunk_samples(s)
     /\ FlushedInLoop => \A s \in Src : Len(buf'[s]) < chunk_samples(s)
     /\ (cpc = "loop" /\ cphase = "main")
          => \A s \in Src : Len(buf[s]) < chunk_samples(s)
     /\ (LoopIteration /\ fid' = fid + 1)
          => \E s \in Src : produced'[s] > produced[s]]_vars

\* an overlap of 1 configured with chunks of 1 second is clamped to 0: two
\* chunks were flushed inside the main loop, the second made of new
\* samples alone, and both buffers are empty
C25_Witness ==
  /\ config.overlap = 1 /\ config.chunk_duration = 1 /\ overlap = 0
  /\ cpc = "loop" /\ cphase = "main" /\ running
  /\ Len(chunkLog) = 2
  /\ \A s \in Src : Range(chunkLog[1][s]) \cap Range(chunkLog[2][s]) = {}
  /\ \A s \in Src : buf[s] = <<>>

(* --------------------------- the receive lock ------------------------- *)
\* the worker is inside process_chunk or deleting the WAVs of a descriptor
Processing(w) == wk[w].pc \notin {"off", "idle", "recv", "failed", "done"}

\* C26: a worker holds the receive lock exactly while it is in its recv
\* call and never while it runs process_chunk, so the lock is free for
\* another worker while one transcribes; at most one worker is inside recv
\* at a time and at most N = concurrency descriptors are processed at once.
C26_LockOnlyAroundRecv ==
  /\ \A w \in Workers : lock = w <=> wk[w].pc = "recv"
  /\ \A w \in Workers : Processing(w) => lock # w
  /\ Cardinality({w \in Workers : wk[w].pc = "recv"}) <= 1
  /\ Cardinality({w \in Workers : Processing(w)}) <= config.concurrency
  /\ \A w, v \in Workers :
       (Processing(w) /\ wk[v].pc = "idle" /\ ~(\E u \in Workers : wk[u].pc = "recv"))
         => lock = 0

\* one worker is transcribing the first descriptor while the other, which
\* took the lock meanwhile, has dequeued the second and processes it
C26_Witness ==
  \E w, v \in Workers :
    /\ wk[w].pc = "tr_sys" /\ wk[w].pair.id = 1
    /\ wk[v].pc = "sil_sys" /\ wk[v].pair.id = 2
    /\ received = <<wk[w].pair, wk[v].pair>>
    /\ lock = 0

(* ------------------------ the chunk directory ------------------------- *)
\* C27: the WAVs of every chunk are written in the `audio/{date}`
\* directory of the date of the chunk's own timestamp, the date its
\* descriptor carries, also when the chunk is flushed after local midnight
\* has passed during the run.
C27_DirOfChunkDate ==
  /\ InFlush => \A side \in Src : wav_path(ftime, side)[1] = ftime.date
  /\ \A i \in DOMAIN emitted :
       /\ emitted[i].system_path[1] = emitted[i].date
       /\ emitted[i].mic_path[1] = emitted[i].date

(* ---------------------- the mic segments rebuilt ---------------------- *)
\* the word w lies inside the segment seg
Inside(w, seg) == seg.start <= w.start /\ w.end <= seg.end

\* the summed duration of the mic words from position i on that are
\* removed and lie inside seg
RECURSIVE RemovedTime(_, _, _, _)
RemovedTime(words, m, seg, i) ==
  IF i > Len(words) THEN 0
  ELSE (IF InLongRun(m, i) /\ Inside(words[i], seg)
          THEN words[i].end - words[i].start ELSE 0)
       + RemovedTime(words, m, seg, i + 1)

\* the trimmed texts of `words`, joined by single spaces
RECURSIVE SpaceJoined(_)
SpaceJoined(words) ==
  IF words = <<>> THEN <<>>
  ELSE trim(words[1].word)
       \o (IF Len(words) = 1 THEN <<>> ELSE <<" ">> \o SpaceJoined(Tail(words)))

\* the mic words that match a system word, position by position
MicMatches ==
  [i \in 1..Len(mt.mic[1].words) |->
     Matching(mt.system[1].words, mt.mic[1].words[i])]

\* more than 0.8 of the segment, of duration > 0, is covered by removed words
MostlyBleed(seg) ==
  /\ seg.end - seg.start > 0
  /\ 10 * RemovedTime(mt.mic[1].words, MicMatches, seg, 1) > 8 * (seg.end - seg.start)

\* the remaining mic words that lie inside the segment, in order
Remaining(seg) ==
  LET In(w) == Inside(w, seg)
  IN  SelectSeq(Survivors(mt.mic[1].words, MicMatches, 1), In)

\* dedup_bleed has discarded what is to be discarded, and every segment
\* it kept has the rebuilt text
SegmentsRebuilt ==
  LET segs == mt.mic[1].segments
      out == mt.deduped[1].mic.segments
      Stays(seg) == ~MostlyBleed(seg) /\ Remaining(seg) # <<>>
      stay == SelectSeq(segs, Stays)
  IN  /\ Len(out) = Len(stay)
      /\ \A i \in 1..Len(out) :
           /\ out[i].start = stay[i].start /\ out[i].end = stay[i].end
           /\ out[i].text # <<>>
           /\ out[i].text = SpaceJoined(Remaining(stay[i]))

SidePath(k, side) == IF side = "system" THEN k.pair.system_path ELSE k.pair.mic_path

\* C29: is_silent is true for a WAV with zero samples and false for a file
\* that cannot be opened; a descriptor with a missing WAV is therefore not
\* skipped as silent: the side is taken for not silent, the worker goes on
\* to transcribe, and transcribe of the missing file returns an error
\* before any POST, which ends the chunk as a failure.
C29_MissingIsNotSilent ==
  [][/\ \A i \in DOMAIN chunkLog, s \in Src, f \in files :
          (f.id = chunkLog[i].id /\ f.path = wav_path(chunkLog[i].t, s)
             /\ chunkLog[i][s] = <<>> /\ mix_mode = "split")
            => is_silent(files, f.path)
     /\ \A w \in Workers :
          LET k == wk[w]
              Missing(side) == ~path_exists(files, SidePath(k, side))
          IN  wk'[w] # k =>
                /\ (k.pc = "sil_sys" /\ Missing("system")) => ~wk'[w].sys_silent
                /\ (k.pc = "sil_mic" /\ Missing("mic")) =>
                     /\ ~wk'[w].mic_silent
                     /\ wk'[w].pc \in {"tr_sys", "tr_mic"}
                     /\ wk'[w].pair = k.pair
                /\ (k.pc = "sil_mic" /\ ~k.sys_silent) => wk'[w].pc = "tr_sys"
                /\ (k.pc = "tr_sys" /\ Missing("system")) =>
                     wk'[w].pc = "failed" /\ wk'[w].call.posts = <<>>
                /\ (k.pc = "tr_sys" /\ ~k.mic_silent) =>
                     wk'[w].pc \in {"tr_mic", "failed"}
                /\ (k.pc = "tr_mic" /\ Missing("mic")) =>
                     wk'[w].pc = "failed" /\ wk'[w].call.posts = <<>>]_vars

\* a descriptor whose system WAV is silent and whose mic WAV is missing
\* was not skipped: the worker is about to call transcribe on the mic WAV
C29_Witness ==
  \E w \in Workers :
    /\ wk[w].pc = "tr_mic" /\ wk[w].sys_silent /\ ~wk[w].mic_silent
    /\ path_exists(files, wk[w].pair.system_path)
    /\ ~path_exists(files, wk[w].pair.mic_path)

(* ------------------------- the speaker lines -------------------------- *)
\* the positions at which a run of segments of one speaker begins
RunStarts(segs) ==
  {i \in 1..Len(segs) : i = 1 \/ segs[i].speaker # segs[i - 1].speaker}

\* the last position of the run that begins at i
RunEnd(segs, i) ==
  CHOOSE e \in i..Len(segs) :
    /\ \A j \in i..e : segs[j].speaker = segs[i].speaker
    /\ e = Len(segs) \/ segs[e + 1].speaker # segs[i].speaker

\* the texts of the segments lo..hi, concatenated in order
RECURSIVE Concat(_, _, _)
Concat(segs, lo, hi) ==
  IF lo > hi THEN <<>> ELSE segs[lo].text \o Concat(segs, lo + 1, hi)

\* the k-th smallest element of a set of numbers
RECURSIVE Nth(_, _)
Nth(S, k) ==
  LET least == CHOOSE x \in S : \A y \in S : x <= y
  IN  IF k = 1 THEN least ELSE Nth(S \ {least}, k - 1)

\* the block has one line per run of segments of one speaker, no two
\* adjacent lines with the same speaker, each line with the time of the
\* first segment of its run and the text of the run, with its leading and
\* trailing whitespace cut when `trimmed`
LinesOfRuns(trimmed) ==
  LET segs == mt.merged[1].segments
      lines == mt.lines[1]
      starts == RunStarts(segs)
  IN  /\ Len(lines) = Cardinality(starts)
      /\ \A j \in 1..Len(lines) - 1 : lines[j].label # lines[j + 1].label
      /\ \A j \in 1..Len(lines) :
           LET i == Nth(starts, j)
           IN  /\ lines[j].label = (IF segs[i].speaker = "you" THEN "You" ELSE "Other")
               /\ lines[j].ts = [m |-> 0, s |-> segs[i].start \div TicksPerSecond]
               /\ lines[j].text = (IF trimmed THEN trim(Concat(segs, i, RunEnd(segs, i)))
                                    ELSE Concat(segs, i, RunEnd(segs, i)))

\* C30 as stated: in a narrative block consecutive segments of one speaker
\* are merged into one line: no two adjacent lines carry the same speaker,
\* the text of a line is the in-order concatenation of the texts of its
\* run of segments, and its time is the start of the first of them.
C30_OneLinePerRun ==
  mt.lines # None => LinesOfRuns(FALSE)

\* C30 amended: the text of a line is that concatenation with its leading
\* and trailing whitespace trimmed.
C30_OneLinePerRunTrimmed ==
  mt.lines # None => LinesOfRuns(TRUE)

\* three segments, the first two of one speaker and one second apart: two
\* lines, the first with both texts in order, the whitespace between them
\* kept and the whitespace at its end cut, at the time of the first
C30_Witness ==
  /\ mt.lines # None
  /\ Len(mt.merged[1].segments) = 3
  /\ mt.merged[1].segments[1].start # mt.merged[1].segments[2].start
  /\ mt.merged[1].segments[1].text = <<"b", " ">>
  /\ mt.merged[1].segments[2].text = <<" ", "a">>
  /\ Len(mt.lines[1]) = 2
  /\ mt.lines[1][1] = [label |-> "Other", ts |-> [m |-> 0, s |-> 0],
                       text |-> <<"b", " ", " ", "a">>]

(* ----------------------- the WAV paths of a run ----------------------- *)
\* C35: no two descriptors emitted during one run name the same WAV path:
\* a later flush, the final flush included, never writes to the system or
\* mic WAV path of an earlier chunk, and so a worker never finds a WAV of
\* its descriptor written by another chunk or deleted already.
C35_DistinctWavPaths ==
  /\ \A i, j \in DOMAIN emitted :
       i # j => /\ emitted[i].system_path # emitted[j].system_path
                /\ emitted[i].mic_path # emitted[j].mic_path
  /\ \A w \in Workers :
       wk[w].pc \in {"sil_sys", "sil_mic"} =>
         \A f \in files :
           f.path \in {wk[w].pair.system_path, wk[w].pair.mic_path}
             => f.id = wk[w].pair.id

(* ----------------------- one worker per descriptor -------------------- *)
\* the worker has a descriptor in hand
Holding(w) == wk[w].pair.id # 0

\* C34: every descriptor emitted while the pool has a worker is received
\* by exactly one worker: a recv hands the head of the queue to the one
\* worker that called it and takes it off the queue, so that no descriptor
\* is received twice, no two workers hold the same descriptor, none is
\* passed over, and when shutdown returns all of them have been received.
C34_ReceivedExactlyOnce ==
  [][/\ emitted = received \o workQ
     /\ \A i, j \in DOMAIN received : i # j => received[i].id # received[j].id
     /\ \A w \in Workers : Holding(w) => \E i \in DOMAIN received : received[i] = wk[w].pair
     /\ \A w, v \in Workers :
          (w # v /\ Holding(w) /\ Holding(v)) => wk[w].pair.id # wk[v].pair.id
     /\ received' # received =>
          /\ workQ # <<>>
          /\ received' = Append(received, Head(workQ))
          /\ workQ' = Tail(workQ)
          /\ Cardinality({w \in Workers : wk'[w] # wk[w]}) = 1
          /\ \A w \in Workers :
               wk'[w] # wk[w] => /\ wk[w].pc = "recv"
                                 /\ wk'[w].pc = "sil_sys"
                                 /\ wk'[w].pair = Head(workQ)
     /\ (mainpc = "done" /\ config.concurrency > 0) => received = emitted]_vars

\* shutdown has returned after a pool of two workers received the two
\* descriptors of the run, each of which has exactly one session.jsonl record
C34_Witness ==
  /\ mainpc = "done" /\ config.concurrency = 2
  /\ Len(emitted) = 2 /\ received = emitted
  /\ Count(jsonl, 1) = 1 /\ Count(jsonl, 2) = 1

(* ---------------------- the order of the outputs ---------------------- *)
\* no line of the narrative document belongs to the descriptor id
NoLine(id) == \A i \in DOMAIN md : md[i].id # id

\* the sides of the descriptor that are not silent
Loud(k) ==
  (IF k.sys_silent THEN {} ELSE {"system"}) \cup (IF k.mic_silent THEN {} ELSE {"mic"})

\* C36: process_chunk writes the per-chunk JSON, then the session.jsonl
\* record, then the narrative block, and begins only when every needed
\* transcription has succeeded: a failed transcription leaves the three
\* artifacts untouched, after a failure of the system side the mic side is
\* not POSTed, and a failed output step leaves the earlier artifacts
\* written and the later ones unwritten.
C36_OutputsInOrder ==
  [][\A w \in Workers :
       LET k == wk[w]
           id == k.pair.id
           failed == wk'[w].pc = "failed"
       IN  wk'[w] # k =>
             /\ (k.pc \notin {"json", "jsonl", "md_title", "md_head", "md_seg", "md_end"})
                  => ovars' = ovars
             /\ k.pc = "json" =>
                  /\ k.posted = Loud(k)
                  /\ ~HasJson(id) /\ ~HasRecord(id) /\ NoLine(id)
                  /\ jsonl' = jsonl /\ md' = md
                  /\ IF failed THEN json' = json /\ jsonLog' = jsonLog
                     ELSE wk'[w].pc = "jsonl" /\ CopiesIn(id, jsonLog') = 1
             /\ k.pc = "jsonl" =>
                  /\ HasJson(id) /\ ~HasRecord(id) /\ NoLine(id)
                  /\ json' = json /\ jsonLog' = jsonLog /\ md' = md
                  /\ IF failed THEN jsonl' = jsonl
                     ELSE wk'[w].pc = "md_open" /\ jsonl' = Append(jsonl, id)
             /\ k.pc = "md_open" => HasJson(id) /\ HasRecord(id) /\ NoLine(id)
             /\ k.pc \in {"md_title", "md_head", "md_seg", "md_end"} =>
                  /\ HasJson(id) /\ HasRecord(id)
                  /\ json' = json /\ jsonLog' = jsonLog /\ jsonl' = jsonl
                  /\ IF failed THEN md' = md ELSE Len(md') = Len(md) + 1
             /\ (k.pc \in {"tr_sys", "tr_mic"} /\ failed) =>
                  /\ ~HasJson(id) /\ ~HasRecord(id) /\ NoLine(id)
                  /\ k.pc = "tr_sys" => "mic" \notin k.posted
             /\ k.pc = "tr_sys" => "mic" \notin k.posted
             /\ k.pc = "failed" => wk'[w].pc = "idle"]_vars

\* the session.jsonl record could not be appended: the per-chunk JSON of
\* the descriptor is written, its record and its narrative block are not
C36_Witness ==
  \E w \in Workers :
    /\ wk[w].pc = "failed"
    /\ HasJson(wk[w].pair.id)
    /\ ~HasRecord(wk[w].pair.id) /\ NoLine(wk[w].pair.id)

(* ------------------ dedup_bleed without words to compare -------------- *)
\* the system or the mic transcript of the call has an empty word list
Wordless == mt.system[1].words = <<>> \/ mt.mic[1].words = <<>>

\* the segments of the speaker in the merged result, in order
SegmentsOf(speaker) ==
  LET Mine(seg) == seg.speaker = speaker
  IN  SelectSeq(mt.merged[1].segments, Mine)

\* C37: when the system or the mic transcript has an empty word list,
\* dedup_bleed leaves the mic transcript as it was: no word removed, no
\* text rebuilt, no segment discarded, a segment that holds no word
\* included; the `you` segments merged are then the mic segments, ordered
\* by start.
C37_WordlessUnchanged ==
  /\ (mt.deduped # None /\ Wordless) => mt.deduped[1].mic = mt.mic[1]
  /\ (mt.merged # None /\ mt.system # None /\ mt.mic # None /\ Wordless) =>
       LET you == SegmentsOf("you")
           segs == sort_by_start(mt.mic[1].segments)
       IN  /\ Len(you) = Len(segs)
           /\ \A i \in DOMAIN you :
                /\ you[i].start = segs[i].start /\ you[i].end = segs[i].end
                /\ you[i].text = segs[i].text
                /\ you[i].words = seg_words(mt.mic[1].words, segs[i])

\* dedup_bleed was called on a mic transcript with segments and no words:
\* every segment stays although no word lies inside it
C37_Witness ==
  /\ mt.deduped # None
  /\ mt.system[1].words # <<>> /\ mt.mic[1].words = <<>>
  /\ mt.mic[1].segments # <<>>
  /\ mt.deduped[1].mic.segments = mt.mic[1].segments

(* ------------------- removed words in the merged result --------------- *)
\* the positions of the mic words that dedup_bleed removes
Bleed ==
  IF Wordless THEN {}
  ELSE {i \in DOMAIN mt.mic[1].words : InLongRun(MicMatches, i)}

\* C38: when both transcripts are present, no word removed by dedup_bleed
\* appears in the merged result: the words of a `you` segment are the mic
\* words inside it that were not removed, in order, and its text is made
\* of these words, trimmed and joined by spaces;
\* the `other` segments, their texts and their words are what they are
\* without the removal: the system segments by start, each with the system
\* words inside it.
C38_RemovedNowhereMerged ==
  (mt.merged # None /\ mt.system # None /\ mt.mic # None) =>
    LET you == SegmentsOf("you")
        other == SegmentsOf("other")
        segs == sort_by_start(mt.system[1].segments)
    IN  /\ \A s \in DOMAIN you :
             /\ you[s].words = Remaining(you[s])
             /\ ~Wordless => you[s].text = SpaceJoined(you[s].words)
        /\ Len(you) + Len(other) = Len(mt.merged[1].segments)
        /\ Len(other) = Len(segs)
        /\ \A s \in DOMAIN other :
             LET In(w) == Inside(w, segs[s])
             IN  /\ other[s].start = segs[s].start /\ other[s].end = segs[s].end
                 /\ other[s].text = segs[s].text
                 /\ other[s].words = SelectSeq(mt.system[1].words, In)

\* three of four mic words were removed; the merged result holds an
\* `other` segment with its words and a `you` segment with the fourth word
C38_Witness ==
  /\ mt.merged # None /\ mt.system # None /\ mt.mic # None
  /\ Cardinality(Bleed) = 3
  /\ \E s \in DOMAIN SegmentsOf("you") : Len(SegmentsOf("you")[s].words) = 1
  /\ \E s \in DOMAIN SegmentsOf("other") : SegmentsOf("other")[s].words # <<>>

(* --------------------- the samples of one source ---------------------- *)
\* the number of leading samples of chunk i of source s that were retained
\* from the flush before it
Kept(i, s) ==
  IF i = 1 THEN 0 ELSE Min(Len(chunkLog[i - 1][s]), overlap_samples(s))

\* the samples of `chunk` after its first n
After(chunk, n) == SubSeq(chunk, n + 1, Len(chunk))

\* the chunks of source s from chunk i on, in flush order, each without
\* the samples retained from the flush before it
RECURSIVE ChunksFrom(_, _)
ChunksFrom(s, i) ==
  IF i > Len(chunkLog) THEN <<>>
  ELSE After(chunkLog[i][s], Kept(i, s)) \o ChunksFrom(s, i + 1)

\* the samples 1 .. n in the order the source produced them
Stream(n) == [i \in 1..n |-> i]

\* C33: within one source the samples reach the chunks without loss,
\* duplication or reordering: the chunk buffers in flush order, each but
\* the first without the leading overlap samples retained from the flush
\* before it, are the sequence received up to the last flush; the samples
\* retained are the last ones of the chunk before, and while the chunker
\* runs the flushed samples followed by the new ones in the buffer are
\* all the samples taken from the source's queue.
C33_SamplesInOrder ==
  \A s \in Src :
    /\ ChunksFrom(s, 1) = Stream(Len(ChunksFrom(s, 1)))
    /\ Len(ChunksFrom(s, 1)) <= produced[s] - Len(srcQ[s])
    /\ \A i \in 2..Len(chunkLog) :
         /\ Kept(i, s) <= Len(chunkLog[i][s])
         /\ SubSeq(chunkLog[i][s], 1, Kept(i, s))
              = Tail_n(chunkLog[i - 1][s], Kept(i, s))
    /\ cpc # "done" =>
         /\ Kept(Len(chunkLog) + 1, s) <= Len(buf[s])
         /\ ChunksFrom(s, 1) \o After(buf[s], Kept(Len(chunkLog) + 1, s))
              = Stream(produced[s] - Len(srcQ[s]))

\* two chunks of one source: the second begins with the last sample of
\* the first, and the two without it are the samples 1, 2 of the source
C33_Witness ==
  /\ Len(chunkLog) = 2
  /\ \E s \in Src :
       /\ Len(chunkLog[1][s]) = 2 /\ Kept(2, s) = 1
       /\ chunkLog[2][s][1] = chunkLog[1][s][2]
       /\ ChunksFrom(s, 1) = <<1, 2>>

(* ------------------------------ the mixer ----------------------------- *)
\* C31: interleave_stereo(a, b) has the length 2 * max(len(a), len(b)); its
\* positions 0, 2, 4, ... hold a followed by zeros and its positions
\* 1, 3, 5, ... hold b followed by zeros (positions counted from 0, the
\* sequences of the model from 1); for a = [0.1, 0.2, 0.3] and
\* b = [0.4, 0.5] it is [0.1, 0.4, 0.2, 0.5, 0.3, 0.0].
C31_InterleavePadded ==
  (mx.op = "interleave" /\ mx.done) =>
    LET n == IF Len(mx.a) >= Len(mx.b) THEN Len(mx.a) ELSE Len(mx.b)
    IN  /\ Len(mx.out) = 2 * n
        /\ \A p \in 0..(n - 1) :
             /\ mx.out[2 * p + 1] = (IF p < Len(mx.a) THEN mx.a[p + 1] ELSE 0)
             /\ mx.out[2 * p + 2] = (IF p < Len(mx.b) THEN mx.b[p + 1] ELSE 0)
        /\ (mx.a = <<1, 2, 3>> /\ mx.b = <<4, 5>>) => mx.out = <<1, 4, 2, 5, 3, 0>>

\* the call of the example has returned
C31_Witness ==
  /\ mx.op = "interleave" /\ mx.done
  /\ mx.a = <<1, 2, 3>> /\ mx.b = <<4, 5>>
  /\ mx.out = <<1, 4, 2, 5, 3, 0>>

\* C32: resample returns the input unchanged when the rates are equal or
\* the input is empty; otherwise the length of its output is within one
\* sample of L * r_out / r_in.
C32_LengthWithinOne ==
  (mx.op = "resample" /\ mx.done) =>
    IF mx.from_rate = mx.to_rate \/ mx.samples = <<>>
      THEN mx.out = mx.samples
      ELSE LET nominal == Len(mx.samples) * mx.to_rate
               got == Len(mx.out) * mx.from_rate
           IN  /\ got - nominal <= mx.from_rate
               /\ nominal - got <= mx.from_rate
=============================================================================
